---- MODULE Spec2Model ----
(***************************************************************************)
(* xmlser: a format-string compiler (Compiler) producing a tree of         *)
(* handler nodes (Tag, Repetition, Attribute, Text, Group, Conditional,    *)
(* Fragment, Document) and their evaluation against an input value into an *)
(* Element tree.  Modelled from src/xmlser.py.                             *)
(*                                                                         *)
(* A format string is a sequence of one-character strings; indices into it *)
(* are 0-based as in the source (At(fmt, idx) is self.fmt[idx]).           *)
(***************************************************************************)
EXTENDS Integers, Sequences, FiniteSets, TLC

VARIABLES fmt, single_root, builder, obj, id, tree, output, pc, heap, calls

vars == <<fmt, single_root, builder, obj, id, tree, output, pc, heap, calls>>

(***************************************************************************)
(* Characters                                                              *)
(***************************************************************************)
Chars(s) == [i \in 1..Len(s) |-> SubSeq(s, i, i)]

Lower == {"a","b","c","d","e","f","g","h","i","j","k","l","m",
          "n","o","p","q","r","s","t","u","v","w","x","y","z"}
Upper == {"A","B","C","D","E","F","G","H","I","J","K","L","M",
          "N","O","P","Q","R","S","T","U","V","W","X","Y","Z"}
Digits == {"0","1","2","3","4","5","6","7","8","9"}
Spaces == {" ", "\t", "\n", "\r", "\f"}

isalpha(c) == c \in Lower \cup Upper
isdigit(c) == c \in Digits
isalnum(c) == isalpha(c) \/ isdigit(c)
isspace(c) == c \in Spaces

DigitValue(c) ==
  CASE c = "0" -> 0 [] c = "1" -> 1 [] c = "2" -> 2 [] c = "3" -> 3
    [] c = "4" -> 4 [] c = "5" -> 5 [] c = "6" -> 6 [] c = "7" -> 7
    [] c = "8" -> 8 [] c = "9" -> 9

DigitChar(d) == <<"0","1","2","3","4","5","6","7","8","9">>[d + 1]

LowerOf(c) ==
  IF c \in Upper
  THEN LET up == Chars("ABCDEFGHIJKLMNOPQRSTUVWXYZ")
           lo == Chars("abcdefghijklmnopqrstuvwxyz")
       IN lo[CHOOSE i \in 1..26 : up[i] = c]
  ELSE c

RECURSIVE int(_)
\* int("123"): the value of a non-empty string of decimal digits
int(s) == IF Len(s) = 0 THEN 0
          ELSE 10 * int(SubSeq(s, 1, Len(s) - 1)) + DigitValue(s[Len(s)])

RECURSIVE str_nat(_)
str_nat(n) == IF n < 10 THEN <<DigitChar(n)>>
              ELSE str_nat(n \div 10) \o <<DigitChar(n % 10)>>

\* str(n) of a Python int
str_int(n) == IF n < 0 THEN <<"-">> \o str_nat(-n) ELSE str_nat(n)

(***************************************************************************)
(* Python values of the input object.  Every kind has its own field names, *)
(* so values of different kinds compare unequal.                           *)
(***************************************************************************)
None == [t |-> "NoneType"]
PyInt(n) == [t |-> "int", n |-> n]
PyStr(s) == [t |-> "str", s |-> s]
PyList(items) == [t |-> "list", items |-> items]
PyTuple(items) == [t |-> "tuple", items |-> items]
\* a dict is the sequence of its (key, value) pairs in its iteration order
Dict(pairs) == [t |-> "dict", pairs |-> pairs]

S(s) == PyStr(Chars(s))
\* a bound method of a built-in value, the result of getattr(self, name)
Method(self, name) == [t |-> "method", self |-> self, name |-> name]

(***************************************************************************)
(* Handler nodes (the compiled program)                                    *)
(***************************************************************************)
NoNode == [k |-> "None"]
AttrLookup(keys) == [k |-> "AttrLookup", keys |-> keys]
Literal(value) == [k |-> "Literal", value |-> value]
List(handler) == [k |-> "List", handler |-> handler]
Group(lookup, handlers) == [k |-> "Group", lookup |-> lookup, handlers |-> handlers]
Conditional(lhs, op, rhs, iftrue, iffalse) ==
  [k |-> "Conditional", lhs |-> lhs, op |-> op, rhs |-> rhs,
   iftrue |-> iftrue, iffalse |-> iffalse]
Attribute(attr, value) == [k |-> "Attribute", attr |-> attr, value |-> value]
Text(text) == [k |-> "Text", text |-> text]
Tag(name, handlers) == [k |-> "Tag", name |-> name, handlers |-> handlers]
Repetition(replist, handler) ==
  [k |-> "Repetition", replist |-> replist, handler |-> handler]
Fragment(handlers) == [k |-> "Fragment", handlers |-> handlers]
Document(handler) == [k |-> "Document", handler |-> handler]

(***************************************************************************)
(* Results of the parsing routines: (idx, node) on return, or the          *)
(* exception raised, with the index it carries.                            *)
(***************************************************************************)
Ret(idx, node) == [exc |-> "None", msg |-> "", idx |-> idx, node |-> node]
Raise(exc, msg, idx) == [exc |-> exc, msg |-> msg, idx |-> idx, node |-> NoNode]

\* self.fmt[idx] past the end of the string
IndexError(idx) == Raise("IndexError", "string index out of range", idx)

InvalidAttribute(idx) == Raise("InvalidAttribute", "Invalid attribute", idx)
InvalidValue(idx) == Raise("InvalidValue", "Invalid value", idx)
InvalidTag(idx, msg) == Raise("InvalidTag", msg, idx)
InvalidCondition(idx, msg) == Raise("InvalidCondition", msg, idx)

\* SerializationFormatError and its subclasses
FormatErrors == {"SerializationFormatError", "InvalidAttribute", "InvalidValue",
                 "InvalidRepetition", "InvalidName", "InvalidTag",
                 "InvalidCondition"}

At(f, idx) == f[idx + 1]
\* f[beg:idx]
Slice(f, beg, idx) == SubSeq(f, beg + 1, idx)

(***************************************************************************)
(* str.decode('string_escape')                                             *)
(***************************************************************************)
Printable ==
  Chars(" !\"#$%&'()*+,-./0123456789:;<=>?@ABCDEFGHIJKLMNOPQRSTUVWXYZ[\\]^_")
  \o <<"chr96">> \o Chars("abcdefghijklmnopqrstuvwxyz{|}~")

\* chr(n), 0 <= n < 256; a byte with no printable form is named by its code
chr(n) ==
  IF n >= 32 /\ n <= 126 THEN Printable[n - 31]
  ELSE CASE n = 9 -> "\t" [] n = 10 -> "\n" [] n = 12 -> "\f" [] n = 13 -> "\r"
         [] OTHER -> "chr" \o (LET d == str_nat(n) IN
                               IF Len(d) = 1 THEN d[1]
                               ELSE IF Len(d) = 2 THEN d[1] \o d[2]
                               ELSE d[1] \o d[2] \o d[3])

HexDigits == Digits \cup {"a","b","c","d","e","f","A","B","C","D","E","F"}
OctDigits == {"0","1","2","3","4","5","6","7"}

HexValue(c) ==
  IF c \in Digits THEN DigitValue(c)
  ELSE CASE LowerOf(c) = "a" -> 10 [] LowerOf(c) = "b" -> 11
         [] LowerOf(c) = "c" -> 12 [] LowerOf(c) = "d" -> 13
         [] LowerOf(c) = "e" -> 14 [] LowerOf(c) = "f" -> 15

RECURSIVE string_escape(_, _, _)
\* Decodes s from position i (1-based) on; out is what is decoded so far.
\* [ok |-> FALSE] is the ValueError of an invalid \x escape.
string_escape(s, i, out) ==
  IF i > Len(s) THEN [ok |-> TRUE, s |-> out]
  ELSE IF s[i] # "\\" THEN string_escape(s, i + 1, Append(out, s[i]))
  ELSE IF i = Len(s) THEN [ok |-> FALSE, s |-> out]   \* trailing backslash
  ELSE LET c == s[i + 1] IN
    IF c = "\n" THEN string_escape(s, i + 2, out)
    ELSE IF c \in {"\\", "'", "\""} THEN string_escape(s, i + 2, Append(out, c))
    ELSE IF c = "b" THEN string_escape(s, i + 2, Append(out, chr(8)))
    ELSE IF c = "f" THEN string_escape(s, i + 2, Append(out, chr(12)))
    ELSE IF c = "t" THEN string_escape(s, i + 2, Append(out, chr(9)))
    ELSE IF c = "n" THEN string_escape(s, i + 2, Append(out, chr(10)))
    ELSE IF c = "r" THEN string_escape(s, i + 2, Append(out, chr(13)))
    ELSE IF c = "v" THEN string_escape(s, i + 2, Append(out, chr(11)))
    ELSE IF c = "a" THEN string_escape(s, i + 2, Append(out, chr(7)))
    ELSE IF c \in OctDigits THEN
      LET n1 == DigitValue(c)
          has2 == i + 2 <= Len(s) /\ s[i + 2] \in OctDigits
          n2 == IF has2 THEN 8 * n1 + DigitValue(s[i + 2]) ELSE n1
          has3 == has2 /\ i + 3 <= Len(s) /\ s[i + 3] \in OctDigits
          n3 == IF has3 THEN 8 * n2 + DigitValue(s[i + 3]) ELSE n2
          used == IF has3 THEN 4 ELSE IF has2 THEN 3 ELSE 2
      IN string_escape(s, i + used, Append(out, chr(n3 % 256)))
    ELSE IF c = "x" THEN
      IF i + 3 <= Len(s) /\ s[i + 2] \in HexDigits /\ s[i + 3] \in HexDigits
      THEN string_escape(s, i + 4,
                         Append(out, chr(16 * HexValue(s[i + 2]) + HexValue(s[i + 3]))))
      ELSE [ok |-> FALSE, s |-> out]
    ELSE string_escape(s, i + 2, out \o <<"\\", c>>)

(***************************************************************************)
(* Compiler: the recursive-descent parser.  Every routine takes the format *)
(* string and an index and returns Ret(idx, node) or the raised exception. *)
(* A routine that goes on after a call is split at the call: the step      *)
(* after it takes the call's result r and propagates its exception.        *)
(***************************************************************************)
_ops == Chars("<=&{~")
_ends == Chars(">}")
_vals == Chars("?.\"")
_special == <<"*">> \o _vals \o _ops \o _ends

InSpecial(c) == \E i \in 1..Len(_special) : _special[i] = c

RECURSIVE quoted_loop(_, _)
\* while self.fmt[idx] != '"': the index of the closing quote, or -1 when the
\* string ends first (IndexError)
quoted_loop(f, idx) ==
  IF idx >= Len(f) THEN -1
  ELSE IF At(f, idx) = "\"" THEN idx
  ELSE IF At(f, idx) = "\\" THEN quoted_loop(f, idx + 2)
  ELSE quoted_loop(f, idx + 1)

\* return idx+1, self.fmt[beg:idx].decode('string_escape')
quoted_ret(end, dec) ==
  IF dec.ok THEN Ret(end + 1, PyStr(dec.s))
  ELSE Raise("ValueError", "invalid escape", end)

quoted_end(f, beg, end) ==
  IF end < 0 THEN IndexError(Len(f))
  ELSE quoted_ret(end, string_escape(Slice(f, beg, end), 1, <<>>))

Compiler_quoted(f, idx) ==
  IF idx >= Len(f) THEN IndexError(idx)
  ELSE IF At(f, idx) # "\"" THEN Raise("AssertionError", "", idx)
  ELSE quoted_end(f, idx + 1, quoted_loop(f, idx + 1))

RECURSIVE ident_loop(_, _)
\* while self.fmt[idx].isalnum() or self.fmt[idx] == '_'
ident_loop(f, idx) ==
  IF idx >= Len(f) THEN -1
  ELSE IF isalnum(At(f, idx)) \/ At(f, idx) = "_" THEN ident_loop(f, idx + 1)
  ELSE idx

RECURSIVE digit_loop(_, _)
\* while self.fmt[idx].isdigit()
digit_loop(f, idx) ==
  IF idx >= Len(f) THEN -1
  ELSE IF isdigit(At(f, idx)) THEN digit_loop(f, idx + 1)
  ELSE idx

RECURSIVE unquoted_loop(_, _)
\* while self.fmt[idx] not in self._special and not self.fmt[idx].isspace()
unquoted_loop(f, idx) ==
  IF idx >= Len(f) THEN -1
  ELSE IF ~InSpecial(At(f, idx)) /\ ~isspace(At(f, idx)) THEN unquoted_loop(f, idx + 1)
  ELSE idx

\* return idx, self.fmt[beg:idx]
get_ident(f, beg, end) ==
  IF end < 0 THEN IndexError(Len(f)) ELSE Ret(end, PyStr(Slice(f, beg, end)))

\* return idx, int(self.fmt[beg:idx])
get_number(f, beg, end) ==
  IF end < 0 THEN IndexError(Len(f)) ELSE Ret(end, PyInt(int(Slice(f, beg, end))))

Compiler_get(f, idx) ==
  IF idx >= Len(f) THEN IndexError(idx)
  ELSE IF isalpha(At(f, idx)) THEN get_ident(f, idx, ident_loop(f, idx))
  ELSE IF isdigit(At(f, idx)) THEN get_number(f, idx, digit_loop(f, idx))
  ELSE IF At(f, idx) = "\"" THEN Compiler_quoted(f, idx)
  ELSE InvalidAttribute(idx)

RECURSIVE lookup_loop(_, _, _), lookup_next(_, _, _)
\* lookup.append(key)
lookup_next(f, lookup, r) ==
  IF r.exc # "None" THEN r ELSE lookup_loop(f, r.idx, Append(lookup, r.node))

\* while self.fmt[idx] == '.': idx, key = self._get(idx+1); lookup.append(key)
lookup_loop(f, idx, lookup) ==
  IF idx >= Len(f) THEN IndexError(idx)
  ELSE IF At(f, idx) = "." THEN lookup_next(f, lookup, Compiler_get(f, idx + 1))
  ELSE Ret(idx, lookup)

\* return idx, AttrLookup(lookup)
val_lookup(r) == IF r.exc # "None" THEN r ELSE Ret(r.idx, AttrLookup(r.node))

\* idx, val = self._quoted(idx); return idx, Literal(val)
val_quoted(r) == IF r.exc # "None" THEN r ELSE Ret(r.idx, Literal(r.node))

\* return idx, Literal(self.fmt[beg:idx])
val_unquoted(f, beg, end) ==
  IF end < 0 THEN IndexError(Len(f)) ELSE Ret(end, Literal(PyStr(Slice(f, beg, end))))

\* return idx, Literal(int(self.fmt[beg:idx]))
val_number(f, beg, end) ==
  IF end < 0 THEN IndexError(Len(f))
  ELSE Ret(end, Literal(PyInt(int(Slice(f, beg, end)))))

\* a _val that returns the index of the ? it has read
Compiler_val_unmoved(f, idx, strings, unquoted, numbers) ==
  IF idx >= Len(f) THEN IndexError(idx)
  ELSE IF At(f, idx) = "." THEN val_lookup(lookup_loop(f, idx, <<>>))
  ELSE IF At(f, idx) = "?" THEN Ret(idx, AttrLookup(<<>>))
  ELSE IF strings /\ At(f, idx) = "\"" THEN val_quoted(Compiler_quoted(f, idx))
  ELSE IF strings /\ unquoted /\ isalpha(At(f, idx))
       THEN val_unquoted(f, idx, unquoted_loop(f, idx))
  ELSE IF numbers /\ unquoted /\ isdigit(At(f, idx))
       THEN val_number(f, idx, digit_loop(f, idx))
  ELSE InvalidValue(idx)

Compiler_val(f, idx, strings, unquoted, numbers) ==
  IF idx >= Len(f) THEN IndexError(idx)
  ELSE IF At(f, idx) = "." THEN val_lookup(lookup_loop(f, idx, <<>>))
  ELSE IF At(f, idx) = "?" THEN Ret(idx + 1, AttrLookup(<<>>))
  ELSE IF strings /\ At(f, idx) = "\"" THEN val_quoted(Compiler_quoted(f, idx))
  ELSE IF strings /\ unquoted /\ isalpha(At(f, idx))
       THEN val_unquoted(f, idx, unquoted_loop(f, idx))
  ELSE IF numbers /\ unquoted /\ isdigit(At(f, idx))
       THEN val_number(f, idx, digit_loop(f, idx))
  ELSE InvalidValue(idx)

\* opts.setdefault(name, True)
setdefault(opts, name) ==
  IF name \in DOMAIN opts THEN opts ELSE opts @@ (name :> TRUE)

\* the three calls of opts.setdefault that open _val
val_opts(opts) ==
  setdefault(setdefault(setdefault(opts, "strings"), "unquoted"), "numbers")

\* assert len(opts) == 3, then the body of _val
val_assert(f, idx, opts) ==
  IF Cardinality(DOMAIN opts) # 3 THEN Raise("AssertionError", "", idx)
  ELSE Compiler_val(f, idx, opts["strings"], opts["unquoted"], opts["numbers"])

\* def _val(self, idx, **opts), called with the keywords opts
val_kw(f, idx, opts) == val_assert(f, idx, val_opts(opts))

\* the keyword arguments of the calls of _val: none, or one option turned off
NoOpts == [name \in {} |-> TRUE]
Off(name) == name :> FALSE

\* return idx, List(value)
list_ret(r) == IF r.exc # "None" THEN r ELSE Ret(r.idx, List(r.node))

\* a _list that calls _val with a keyword that is not one of its options
Compiler_list_misnamed(f, idx) ==
  list_ret(val_kw(f, idx, Off("string")))

Compiler_list(f, idx) ==
  list_ret(val_kw(f, idx, Off("strings")))

\* return idx, Attribute(attr, val)
attr_ret(attr, v) == IF v.exc # "None" THEN v ELSE Ret(v.idx, Attribute(attr, v.node))

\* idx, val = self._val(idx, unquoted=False)
attr_value(f, a) ==
  IF a.exc # "None" THEN a
  ELSE attr_ret(a.node, val_kw(f, a.idx, Off("unquoted")))

Compiler_attr(f, idx) == attr_value(f, val_kw(f, idx, Off("numbers")))

\* return idx, Text(text)
text_ret(r) == IF r.exc # "None" THEN r ELSE Ret(r.idx, Text(r.node))

Compiler_text(f, idx) == text_ret(val_kw(f, idx, Off("numbers")))

\* the operator table of _cond: (binary, op); op "None" is no operator
cond_op(c) ==
  CASE c = "?" -> [binary |-> FALSE, op |-> "truth"]
    [] c = "=" -> [binary |-> TRUE, op |-> "eq"]
    [] c = "<" -> [binary |-> TRUE, op |-> "lt"]
    [] c = ">" -> [binary |-> TRUE, op |-> "gt"]
    [] c = "/" -> [binary |-> TRUE, op |-> "contains"]
    [] OTHER -> [binary |-> FALSE, op |-> "None"]

\* compose(operator.not_, op) when negate, else op
Op(name, negate) == [name |-> name, negate |-> negate]

RECURSIVE Compiler_intag(_, _), Compiler_tag(_, _, _), Compiler_group(_, _),
          Compiler_cond(_, _), group_handlers(_, _, _), group_next(_, _, _),
          tag_handlers(_, _, _), tag_next(_, _, _)

\* handlers.append(handler)
group_next(f, handlers, r) ==
  IF r.exc # "None" THEN r ELSE group_handlers(f, r.idx, Append(handlers, r.node))

\* while self.fmt[idx] != '}': idx, handler = self._intag(idx); ...; idx += 1
group_handlers(f, idx, handlers) ==
  IF idx >= Len(f) THEN IndexError(idx)
  ELSE IF At(f, idx) # "}" THEN group_next(f, handlers, Compiler_intag(f, idx))
  ELSE Ret(idx + 1, handlers)

\* return idx, Group(AttrLookup(lookup), handlers)
group_ret(lookup, h) ==
  IF h.exc # "None" THEN h ELSE Ret(h.idx, Group(AttrLookup(lookup), h.node))

group_body(f, l) ==
  IF l.exc # "None" THEN l ELSE group_ret(l.node, group_handlers(f, l.idx, <<>>))

Compiler_group(f, idx) == group_body(f, lookup_loop(f, idx, <<>>))

\* return idx, Conditional(lhs, op, rhs, iftrue, iffalse)
cond_ret(op, lhs, rhs, iftrue, iffalse) ==
  IF iffalse.exc # "None" THEN iffalse
  ELSE Ret(iffalse.idx, Conditional(lhs, op, rhs, iftrue, iffalse.node))

\* a conditional that leaves a ~ after its then-production where it is
cond_iffalse_left(f, op, lhs, rhs, iftrue) ==
  IF iftrue.exc # "None" THEN iftrue
  ELSE IF iftrue.idx >= Len(f) THEN IndexError(iftrue.idx)
  ELSE cond_ret(op, lhs, rhs, iftrue.node, Ret(iftrue.idx, NoNode))

\* if self.fmt[idx] == '~': idx, iffalse = self._intag(idx+1)
cond_iffalse(f, op, lhs, rhs, iftrue) ==
  IF iftrue.exc # "None" THEN iftrue
  ELSE IF iftrue.idx >= Len(f) THEN IndexError(iftrue.idx)
  ELSE cond_ret(op, lhs, rhs, iftrue.node,
                IF At(f, iftrue.idx) = "~" THEN Compiler_intag(f, iftrue.idx + 1)
                ELSE Ret(iftrue.idx, NoNode))

\* idx, iftrue = self._intag(idx)
cond_iftrue(f, op, lhs, rhs) ==
  IF rhs.exc # "None" THEN rhs
  ELSE cond_iffalse(f, op, lhs, rhs.node, Compiler_intag(f, rhs.idx))

\* if op is None: raise; idx += 1; negate; if binary: idx, rhs = self._val(idx)
cond_rhs(f, negate, lhs, idx, o) ==
  IF o.op = "None" THEN InvalidCondition(idx, "Unrecognized conditional operator")
  ELSE cond_iftrue(f, Op(o.op, negate), lhs,
                   IF o.binary THEN val_kw(f, idx + 1, NoOpts)
                   ELSE Ret(idx + 1, NoNode))

\* binary, op = {...}.get(self.fmt[idx], (False, None))
cond_operator(f, negate, lhs) ==
  IF lhs.exc # "None" THEN lhs
  ELSE IF lhs.idx >= Len(f) THEN IndexError(lhs.idx)
  ELSE cond_rhs(f, negate, lhs.node, lhs.idx, cond_op(At(f, lhs.idx)))

Compiler_cond(f, idx) ==
  IF idx >= Len(f) THEN IndexError(idx)
  ELSE cond_operator(f, At(f, idx) = "!",
                     val_kw(f, IF At(f, idx) = "!" THEN idx + 1 ELSE idx,
                            Off("strings")))

Compiler_intag(f, idx) ==
  IF idx >= Len(f) THEN IndexError(idx)
  ELSE IF At(f, idx) = "<" THEN Compiler_tag(f, idx + 1, FALSE)
  ELSE IF At(f, idx) = "=" THEN Compiler_attr(f, idx + 1)
  ELSE IF At(f, idx) = "&" THEN Compiler_text(f, idx + 1)
  ELSE IF At(f, idx) = "{" THEN Compiler_group(f, idx + 1)
  ELSE IF At(f, idx) = "~" THEN Compiler_cond(f, idx + 1)
  ELSE InvalidTag(idx, "Unrecognized character")

\* handlers.append(handler)
tag_next(f, handlers, r) ==
  IF r.exc # "None" THEN r ELSE tag_handlers(f, r.idx, Append(handlers, r.node))

\* while self.fmt[idx] != '>': idx, handler = self._intag(idx); ...; idx += 1
tag_handlers(f, idx, handlers) ==
  IF idx >= Len(f) THEN IndexError(idx)
  ELSE IF At(f, idx) # ">" THEN tag_next(f, handlers, Compiler_intag(f, idx))
  ELSE Ret(idx + 1, handlers)

\* tag = Tag(name, handlers); return idx, tag or idx, Repetition(replist, tag)
tag_ret(name, replist, h) ==
  IF h.exc # "None" THEN h
  ELSE IF replist = NoNode THEN Ret(h.idx, Tag(name, h.node))
  ELSE Ret(h.idx, Repetition(replist, Tag(name, h.node)))

tag_body(f, name, replist) ==
  IF replist.exc # "None" THEN replist
  ELSE tag_ret(name, replist.node, tag_handlers(f, replist.idx, <<>>))

\* the two tests of self.fmt[idx] == '*' after the name
tag_replist(f, single, name) ==
  IF name.exc # "None" THEN name
  ELSE IF name.idx >= Len(f) THEN IndexError(name.idx)
  ELSE IF At(f, name.idx) = "*" /\ single
       THEN InvalidTag(name.idx, "Root tag cannot be repeated")
  ELSE tag_body(f, name.node,
                IF At(f, name.idx) = "*" THEN Compiler_list(f, name.idx + 1)
                ELSE Ret(name.idx, NoNode))

Compiler_tag(f, idx, single) ==
  tag_replist(f, single, val_kw(f, idx, Off("numbers")))

RECURSIVE compile_loop(_, _, _, _), compile_next(_, _, _, _)
\* handlers.append(handler)
compile_next(f, handlers, sr, r) ==
  IF r.exc # "None" THEN r ELSE compile_loop(f, r.idx, Append(handlers, r.node), sr)

\* while self.fmt[idx] == '<': idx, handler = self._tag(idx+1, single_root); ...
compile_loop(f, idx, handlers, sr) ==
  IF idx >= Len(f) THEN IndexError(idx)
  ELSE IF At(f, idx) = "<" THEN compile_next(f, handlers, sr, Compiler_tag(f, idx + 1, sr))
  ELSE Ret(idx, handlers)

\* handlers = [handler]
compile_single(r) == IF r.exc # "None" THEN r ELSE Ret(r.idx, <<r.node>>)

\* the try block of compile: (idx, handlers) or the exception raised in it
compile_try(f, sr) ==
  IF sr /\ 0 >= Len(f) THEN IndexError(0)
  ELSE IF sr /\ At(f, 0) = "<" THEN compile_single(Compiler_tag(f, 1, TRUE))
  ELSE compile_loop(f, 0, <<>>, sr)

\* compile without the test for an unprocessed tail
compile_ret_no_tail(f, sr, r) ==
  IF r.exc = "IndexError"
  THEN Raise("SerializationFormatError", "Unexpected end of format", Len(f))
  ELSE IF r.exc # "None" THEN r
  ELSE IF sr THEN
         IF Len(r.node) = 1 THEN Ret(r.idx, Document(r.node[1]))
         ELSE Raise("AssertionError", "", r.idx)
  ELSE Ret(r.idx, Fragment(r.node))

\* the except clause and what follows the try block
compile_ret(f, sr, r) ==
  IF r.exc = "IndexError"
  THEN Raise("SerializationFormatError", "Unexpected end of format", Len(f))
  ELSE IF r.exc # "None" THEN r
  ELSE IF r.idx # Len(f)
       THEN Raise("SerializationFormatError", "Unprocessed tail", r.idx)
  ELSE IF sr THEN
         IF Len(r.node) = 1 THEN Ret(r.idx, Document(r.node[1]))
         ELSE Raise("AssertionError", "", r.idx)
  ELSE Ret(r.idx, Fragment(r.node))

Compiler_compile(f, sr) == compile_ret(f, sr, compile_try(f, sr))

(***************************************************************************)
(* Text conversion, escaping and name checks                               *)
(***************************************************************************)
RECURSIVE replace(_, _, _)
\* s.replace(c, rep) for a one-character c
replace(s, c, rep) ==
  IF Len(s) = 0 THEN <<>>
  ELSE (IF Head(s) = c THEN rep ELSE <<Head(s)>>) \o replace(Tail(s), c, rep)

\* the three replacements with the ampersand replaced last
escape_amp_last(data) ==
  replace(replace(replace(data, ">", Chars("&gt;")), "<", Chars("&lt;")),
          "&", Chars("&amp;"))

\* xml.sax.saxutils.escape(data)
escape(data) ==
  replace(replace(replace(data, "&", Chars("&amp;")), ">", Chars("&gt;")),
          "<", Chars("&lt;"))

Contains(s, c) == \E i \in 1..Len(s) : s[i] = c

\* repr() of a str
repr_str(s) ==
  LET q == IF Contains(s, "'") /\ ~Contains(s, "\"") THEN "\"" ELSE "'"
  IN <<q>> \o replace(replace(s, "\\", Chars("\\\\")), q, <<"\\", q>>) \o <<q>>

RECURSIVE repr(_), repr_items(_), repr_pairs(_)
repr_items(items) ==
  IF Len(items) = 0 THEN <<>>
  ELSE IF Len(items) = 1 THEN repr(items[1])
  ELSE repr(items[1]) \o Chars(", ") \o repr_items(Tail(items))

repr_pairs(pairs) ==
  IF Len(pairs) = 0 THEN <<>>
  ELSE repr(pairs[1][1]) \o Chars(": ") \o repr(pairs[1][2])
       \o (IF Len(pairs) = 1 THEN <<>> ELSE Chars(", ") \o repr_pairs(Tail(pairs)))

repr(v) ==
  CASE v.t = "NoneType" -> Chars("None")
    [] v.t = "int" -> str_int(v.n)
    [] v.t = "str" -> repr_str(v.s)
    [] v.t = "list" -> <<"[">> \o repr_items(v.items) \o <<"]">>
    [] v.t = "tuple" -> <<"(">> \o repr_items(v.items)
                        \o (IF Len(v.items) = 1 THEN <<",">> ELSE <<>>) \o <<")">>
    [] v.t = "dict" -> <<"{">> \o repr_pairs(v.pairs) \o <<"}">>
    \* the text ends with the address of self, which is where the input of
    \* this evaluation was placed
    [] v.t = "method" -> Chars("<built-in method ") \o v.name \o Chars(" of ")
                         \o Chars(v.self.t) \o Chars(" object at 0x") \o id \o Chars(">")

\* force_unicode(txt): the text of a value (ASCII strings decode to themselves)
force_unicode(txt) == IF txt.t = "str" THEN txt.s ELSE repr(txt)

\* a value or the exception raised while computing it
Val(v) == [exc |-> "None", val |-> v]
Exc(e) == [exc |-> e, val |-> None]

\* _xml_tag_badchr_re = '[<>&"\']|\\s'
_xml_tag_badchr(c) == c \in {"<", ">", "&", "\"", "'"} \/ c \in Spaces \/ c = "chr11"

\* the checks of a tag name without the one for the prefix "xml"
check_tag_no_xml(t) ==
  IF Len(t) = 0 THEN Exc("ValueError")
  ELSE IF isdigit(t[1]) THEN Exc("ValueError")
  ELSE IF \E i \in 1..Len(t) : _xml_tag_badchr(t[i]) THEN Exc("ValueError")
  ELSE Val(t)

check_tag(t) ==
  IF Len(t) = 0 THEN Exc("ValueError")
  ELSE IF isdigit(t[1]) THEN Exc("ValueError")
  ELSE IF Len(t) >= 3 /\ <<LowerOf(t[1]), LowerOf(t[2]), LowerOf(t[3])>> = Chars("xml")
       THEN Exc("ValueError")
  ELSE IF \E i \in 1..Len(t) : _xml_tag_badchr(t[i]) THEN Exc("ValueError")
  ELSE Val(t)

check_attr(a) ==
  IF Len(a) = 0 THEN Exc("ValueError")
  ELSE IF ~isalpha(a[1]) /\ a[1] \notin {"_", ":"} THEN Exc("ValueError")
  ELSE IF ~(\A i \in 2..Len(a) : isalnum(a[i]) \/ a[i] \in {"_", ":", ".", "-"})
       THEN Exc("ValueError")
  ELSE Val(a)

(***************************************************************************)
(* Element tree                                                            *)
(***************************************************************************)
Element(tag, attrs, content) ==
  [t |-> "Element", tag |-> tag, attrs |-> attrs, content |-> content]
\* an escaped text item of a content list
Unicode(s) == [t |-> "unicode", s |-> s]

(***************************************************************************)
(* Value resolvers: AttrLookup, Literal, List                              *)
(***************************************************************************)
HasKey(pairs, key) == \E i \in 1..Len(pairs) : pairs[i][1] = key
GetKey(pairs, key) == pairs[CHOOSE i \in 1..Len(pairs) : pairs[i][1] = key][2]

\* obj[key]
getitem(o, key) ==
  CASE o.t = "dict" ->
         IF HasKey(o.pairs, key) THEN Val(GetKey(o.pairs, key)) ELSE Exc("KeyError")
    [] o.t \in {"list", "tuple"} ->
         IF key.t # "int" THEN Exc("TypeError")
         ELSE IF key.n < Len(o.items) THEN Val(o.items[key.n + 1])
         ELSE Exc("IndexError")
    [] o.t = "str" ->
         IF key.t # "int" THEN Exc("TypeError")
         ELSE IF key.n < Len(o.s) THEN Val(PyStr(<<o.s[key.n + 1]>>))
         ELSE Exc("IndexError")
    [] OTHER -> Exc("TypeError")

\* the names of the methods of the built-in types a key can spell
MethodNames(t) ==
  CASE t = "dict" -> {"clear", "copy", "fromkeys", "get", "has_key", "items",
                      "iteritems", "iterkeys", "itervalues", "keys", "pop",
                      "popitem", "setdefault", "update", "values", "viewitems",
                      "viewkeys", "viewvalues"}
    [] t = "list" -> {"append", "count", "extend", "index", "insert", "pop",
                      "remove", "reverse", "sort"}
    [] t = "tuple" -> {"count", "index"}
    [] t = "str" -> {"capitalize", "center", "count", "decode", "encode",
                     "endswith", "expandtabs", "find", "format", "index",
                     "isalnum", "isalpha", "isdigit", "islower", "isspace",
                     "istitle", "isupper", "join", "ljust", "lower", "lstrip",
                     "partition", "replace", "rfind", "rindex", "rjust",
                     "rpartition", "rsplit", "rstrip", "split", "splitlines",
                     "startswith", "strip", "swapcase", "title", "translate",
                     "upper", "zfill"}
    [] t = "int" -> {"bit_length", "conjugate"}
    [] OTHER -> {}

\* getattr(obj, key): a bound method, a data attribute of an int, or
\* AttributeError
getattr(o, key) ==
  IF key.t # "str" THEN Exc("TypeError")
  ELSE IF \E m \in MethodNames(o.t) : Chars(m) = key.s THEN Val(Method(o, key.s))
  ELSE IF o.t = "int" /\ key.s \in {Chars("real"), Chars("numerator")} THEN Val(o)
  ELSE IF o.t = "int" /\ key.s = Chars("imag") THEN Val(PyInt(0))
  ELSE IF o.t = "int" /\ key.s = Chars("denominator") THEN Val(PyInt(1))
  ELSE Exc("AttributeError")

\* the handlers of obj[key] without the one for IndexError
lookup_index_raw(o, key, r) ==
  IF r.exc = "KeyError" THEN getitem(o, PyStr(str_int(key.n))) ELSE r

\* except KeyError: return obj[str(key)]; except IndexError: raise KeyError
lookup_index(o, key, r) ==
  IF r.exc = "KeyError" THEN getitem(o, PyStr(str_int(key.n)))
  ELSE IF r.exc = "IndexError" THEN Exc("KeyError")
  ELSE r

\* the attribute looked up after any failure of obj[key]
lookup_name_any(o, key, r) == IF r.exc # "None" THEN getattr(o, key) ELSE r

\* except TypeError: pass; return getattr(obj, key)
lookup_name(o, key, r) == IF r.exc = "TypeError" THEN getattr(o, key) ELSE r

\* hasattr(obj, "__getitem__")
has_getitem(o) == o.t \in {"dict", "list", "tuple", "str"}

AttrLookup_lookup(o, key) ==
  IF key.t = "int" THEN lookup_index(o, key, getitem(o, key))
  ELSE IF has_getitem(o) THEN lookup_name(o, key, getitem(o, key))
  ELSE getattr(o, key)

RECURSIVE AttrLookup_call(_, _), AttrLookup_next(_, _)
AttrLookup_next(keys, r) ==
  IF r.exc # "None" THEN r ELSE AttrLookup_call(Tail(keys), r.val)

\* reduce(self._lookup, self.keys, obj)
AttrLookup_call(keys, o) ==
  IF Len(keys) = 0 THEN Val(o)
  ELSE AttrLookup_next(keys, AttrLookup_lookup(o, keys[1]))

Literal_call(value, o) == Val(value)

\* a value resolver applied to the current value
Resolve(node, o) ==
  IF node.k = "AttrLookup" THEN AttrLookup_call(node.keys, o)
  ELSE Literal_call(node.value, o)

\* list(range(value))
range(n) == [i \in 1..(IF n > 0 THEN n ELSE 0) |-> PyInt(i - 1)]

\* the pairs with key and value exchanged
items_swapped(pairs) == [i \in 1..Len(pairs) |-> PyTuple(<<pairs[i][2], pairs[i][1]>>)]

\* value.items()
items(pairs) == [i \in 1..Len(pairs) |-> PyTuple(<<pairs[i][1], pairs[i][2]>>)]

\* the coercion without the branch for values that have items()
List_coerce_no_items(value) ==
  IF value.exc # "None" THEN value
  ELSE IF value.val.t = "int" THEN Val(PyList(range(value.val.n)))
  ELSE value

\* the coercion of List.__call__ applied to the resolved value
List_coerce(value) ==
  IF value.exc # "None" THEN value
  ELSE IF value.val.t = "dict" THEN Val(PyList(items(value.val.pairs)))
  ELSE IF value.val.t = "int" THEN Val(PyList(range(value.val.n)))
  ELSE value

List_call(handler, o) == List_coerce(Resolve(handler, o))

\* for item in v: the items iterated, or TypeError for a value that is not iterable
iter(v) ==
  CASE v.t \in {"list", "tuple"} -> Val(v.items)
    [] v.t = "str" -> Val([i \in 1..Len(v.s) |-> PyStr(<<v.s[i]>>)])
    [] v.t = "dict" -> Val([i \in 1..Len(v.pairs) |-> v.pairs[i][1]])
    [] OTHER -> Exc("TypeError")

(***************************************************************************)
(* The operators of a conditional (Python 2 comparison semantics)          *)
(***************************************************************************)
ord(c) ==
  IF \E i \in 1..Len(Printable) : Printable[i] = c
  THEN 31 + (CHOOSE i \in 1..Len(Printable) : Printable[i] = c)
  ELSE CASE c = "\t" -> 9 [] c = "\n" -> 10 [] c = "\f" -> 12 [] c = "\r" -> 13
         [] OTHER -> 0

cmp_int(a, b) == IF a < b THEN -1 ELSE IF a > b THEN 1 ELSE 0

RECURSIVE cmp_chars(_, _)
cmp_chars(a, b) ==
  IF Len(a) = 0 \/ Len(b) = 0 THEN cmp_int(Len(a), Len(b))
  ELSE IF Head(a) # Head(b) THEN cmp_int(ord(Head(a)), ord(Head(b)))
  ELSE cmp_chars(Tail(a), Tail(b))

\* objects of different types order by type name, numbers first, None before all
type_rank(t) ==
  CASE t = "NoneType" -> 0 [] t = "int" -> 1 [] t = "method" -> 2 [] t = "dict" -> 3
    [] t = "list" -> 4 [] t = "str" -> 5 [] t = "tuple" -> 6

RECURSIVE cmp(_, _), cmp_items(_, _), dict_compare(_, _)

cmp_items(a, b) ==
  IF Len(a) = 0 \/ Len(b) = 0 THEN cmp_int(Len(a), Len(b))
  ELSE IF Head(a) # Head(b) THEN cmp(Head(a), Head(b))
  ELSE cmp_items(Tail(a), Tail(b))

\* the positions of a's pairs whose key is missing from b or maps to another value
diff_keys(a, b) ==
  {i \in 1..Len(a) : ~HasKey(b, a[i][1]) \/ GetKey(b, a[i][1]) # a[i][2]}

dict_compare(a, b) ==
  IF Len(a) # Len(b) THEN cmp_int(Len(a), Len(b))
  ELSE IF diff_keys(a, b) = {} THEN 0
  ELSE LET ai == CHOOSE i \in diff_keys(a, b) :
                   \A j \in diff_keys(a, b) : cmp(a[i][1], a[j][1]) <= 0
           bi == CHOOSE i \in diff_keys(b, a) :
                   \A j \in diff_keys(b, a) : cmp(b[i][1], b[j][1]) <= 0
       IN IF cmp(a[ai][1], b[bi][1]) # 0 THEN cmp(a[ai][1], b[bi][1])
          ELSE cmp(a[ai][2], b[bi][2])

\* cmp(a, b): -1, 0 or 1
cmp(a, b) ==
  IF a = b THEN 0
  ELSE IF a.t # b.t THEN cmp_int(type_rank(a.t), type_rank(b.t))
  ELSE CASE a.t = "int" -> cmp_int(a.n, b.n)
         [] a.t = "str" -> cmp_chars(a.s, b.s)
         [] a.t \in {"list", "tuple"} -> cmp_items(a.items, b.items)
         [] a.t = "dict" -> dict_compare(a.pairs, b.pairs)
         [] a.t = "method" ->
              IF a.self # b.self THEN cmp(a.self, b.self) ELSE cmp_chars(a.name, b.name)

\* operator.truth(a)
truth(a) ==
  CASE a.t = "NoneType" -> FALSE
    [] a.t = "int" -> a.n # 0
    [] a.t = "str" -> Len(a.s) > 0
    [] a.t \in {"list", "tuple"} -> Len(a.items) > 0
    [] a.t = "dict" -> Len(a.pairs) > 0
    [] a.t = "method" -> TRUE

\* whether b occurs in a as a substring
substring(a, b) ==
  \E i \in 0..(Len(a) - Len(b)) : SubSeq(a, i + 1, i + Len(b)) = b

RECURSIVE hashable(_)
\* hash(b) is defined: lists and dicts are unhashable, a tuple is hashable when
\* its items are
hashable(b) ==
  CASE b.t \in {"list", "dict"} -> FALSE
    [] b.t = "tuple" -> \A i \in 1..Len(b.items) : hashable(b.items[i])
    [] OTHER -> TRUE

\* the containment test with its operands exchanged
contains_lhs_in_rhs(a, b) ==
  CASE b.t \in {"list", "tuple"} ->
         [exc |-> "None", val |-> \E i \in 1..Len(b.items) : b.items[i] = a]
    [] b.t = "dict" ->
         IF hashable(a) THEN [exc |-> "None", val |-> HasKey(b.pairs, a)]
         ELSE [exc |-> "TypeError", val |-> FALSE]
    [] b.t = "str" ->
         IF a.t = "str" THEN [exc |-> "None", val |-> substring(b.s, a.s)]
         ELSE [exc |-> "TypeError", val |-> FALSE]
    [] OTHER -> [exc |-> "TypeError", val |-> FALSE]

\* operator.contains(a, b), which is `b in a`: a is the container
contains(a, b) ==
  CASE a.t \in {"list", "tuple"} ->
         [exc |-> "None", val |-> \E i \in 1..Len(a.items) : a.items[i] = b]
    [] a.t = "dict" ->
         IF hashable(b) THEN [exc |-> "None", val |-> HasKey(a.pairs, b)]
         ELSE [exc |-> "TypeError", val |-> FALSE]
    [] a.t = "str" ->
         IF b.t = "str" THEN [exc |-> "None", val |-> substring(a.s, b.s)]
         ELSE [exc |-> "TypeError", val |-> FALSE]
    [] OTHER -> [exc |-> "TypeError", val |-> FALSE]

\* op(lhs, rhs) for the operators of the table (rhs unused by truth)
apply_op(name, lhs, rhs) ==
  CASE name = "truth" -> [exc |-> "None", val |-> truth(lhs)]
    [] name = "eq" -> [exc |-> "None", val |-> lhs = rhs]
    [] name = "lt" -> [exc |-> "None", val |-> cmp(lhs, rhs) < 0]
    [] name = "gt" -> [exc |-> "None", val |-> cmp(lhs, rhs) > 0]
    [] name = "contains" -> contains(lhs, rhs)

\* the operator left as it is when the conditional is negated
op_ignore_negate(op, r) == r

\* operator.not_ composed over the operator when the conditional is negated
op_negate(op, r) ==
  IF r.exc # "None" THEN r
  ELSE [exc |-> "None", val |-> IF op.negate THEN ~r.val ELSE r.val]

\* the op of a Conditional
op_call(op, lhs, rhs) == op_negate(op, apply_op(op.name, lhs, rhs))

(***************************************************************************)
(* Handlers: each is called with the current value and the current Element *)
(* and appends to it; the result is the Element after the call, or the     *)
(* exception that ended the evaluation.                                    *)
(***************************************************************************)
Done(cur) == [exc |-> "None", cur |-> cur]
Fail(exc, cur) == [exc |-> exc, cur |-> cur]

\* an attribute list kept as a mapping: a name set twice keeps its first place
\* and its last value
Attribute_append_keyed(cur, name, v) ==
  IF v.exc # "None" THEN Fail(v.exc, cur)
  ELSE IF \E j \in 1..Len(cur.attrs) : cur.attrs[j][1] = name
  THEN Done([cur EXCEPT !.attrs =
               [j \in 1..Len(@) |-> IF @[j][1] = name
                                    THEN <<name, escape(force_unicode(v.val))>> ELSE @[j]]])
  ELSE Done([cur EXCEPT !.attrs = Append(@, <<name, escape(force_unicode(v.val))>>)])

\* cur.attrs.append((name, escape(force_unicode(self.value(obj)))))
Attribute_append(cur, name, v) ==
  IF v.exc # "None" THEN Fail(v.exc, cur)
  ELSE Done([cur EXCEPT !.attrs = Append(@, <<name, escape(force_unicode(v.val))>>)])

Attribute_value(node, o, cur, name) ==
  IF name.exc # "None" THEN Fail(name.exc, cur)
  ELSE Attribute_append(cur, name.val, Resolve(node.value, o))

\* check_attr(force_unicode(self.attr(obj)))
Attribute_name(node, o, cur, a) ==
  IF a.exc # "None" THEN Fail(a.exc, cur)
  ELSE Attribute_value(node, o, cur, check_attr(force_unicode(a.val)))

Attribute_call(node, o, cur) == Attribute_name(node, o, cur, Resolve(node.attr, o))

\* cur.content.append(escape(force_unicode(self.text(obj))))
Text_append(cur, v) ==
  IF v.exc # "None" THEN Fail(v.exc, cur)
  ELSE Done([cur EXCEPT !.content = Append(@, Unicode(escape(force_unicode(v.val))))])

Text_call(node, o, cur) == Text_append(cur, Resolve(node.text, o))

RECURSIVE Call(_, _, _), run_handlers(_, _, _), handlers_next(_, _, _),
          Tag_call(_, _, _), Tag_new(_, _, _, _),
          Repetition_call(_, _, _), Repetition_loop(_, _, _),
          rep_loop(_, _, _), rep_next(_, _, _),
          Group_call(_, _, _), Group_run(_, _, _),
          Conditional_call(_, _, _), Conditional_dispatch(_, _, _, _)

\* check_tag(force_unicode(self.name(obj)))
Tag_check(n) == IF n.exc # "None" THEN n ELSE check_tag(force_unicode(n.val))

Tag_name(node, o) == Tag_check(Resolve(node.name, o))

\* iter(items), as the for statement calls it
Repetition_iter(l) == IF l.exc # "None" THEN l ELSE iter(l.val)

\* items = self.replist(obj)
Repetition_items(node, o) == Repetition_iter(List_call(node.replist.handler, o))

\* res = self.op(lhs, rhs) or self.op(lhs)
Conditional_op(node, lhs, rhs) ==
  IF rhs.exc # "None" THEN rhs ELSE op_call(node.op, lhs, rhs.val)

\* if self.rhs: a handler node is an object, true whenever it is not None
Conditional_rhs(node, o, lhs) ==
  IF lhs.exc # "None" THEN lhs
  ELSE Conditional_op(node, lhs.val,
                      IF node.rhs # NoNode THEN Resolve(node.rhs, o) ELSE Val(None))

Conditional_res(node, o) == Conditional_rhs(node, o, Resolve(node.lhs, o))

handlers_next(handlers, o, r) ==
  IF r.exc # "None" THEN r ELSE run_handlers(Tail(handlers), o, r.cur)

\* for handler in handlers: handler(obj, cur)
run_handlers(handlers, o, cur) ==
  IF Len(handlers) = 0 THEN Done(cur)
  ELSE handlers_next(handlers, o, Call(handlers[1], o, cur))

\* if cur: cur.content.append(tag).  cur is an Element, a non-empty tuple, so
\* `if cur` holds
Tag_append(cur, tag) ==
  IF tag.exc # "None" THEN Fail(tag.exc, cur)
  ELSE Done([cur EXCEPT !.content = Append(@, tag.cur)])

\* tag = Element(name, [], []); for handler in self.handlers: handler(obj, tag)
Tag_new(node, o, cur, t) ==
  IF t.exc # "None" THEN Fail(t.exc, cur)
  ELSE Tag_append(cur, run_handlers(node.handlers, o, Element(t.val, <<>>, <<>>)))

Tag_call(node, o, cur) == Tag_new(node, o, cur, Tag_name(node, o))

rep_next(handler, its, r) ==
  IF r.exc # "None" THEN r ELSE rep_loop(handler, Tail(its), r.cur)

\* the loop left after its first item
rep_loop_once(handler, its, cur) ==
  IF Len(its) = 0 THEN Done(cur) ELSE Call(handler, its[1], cur)

\* for item in items: self.handler(item, cur)
rep_loop(handler, its, cur) ==
  IF Len(its) = 0 THEN Done(cur)
  ELSE rep_next(handler, its, Call(handler, its[1], cur))

Repetition_loop(node, cur, its) ==
  IF its.exc # "None" THEN Fail(its.exc, cur)
  ELSE rep_loop(node.handler, its.val, cur)

Repetition_call(node, o, cur) == Repetition_loop(node, cur, Repetition_items(node, o))

\* obj = self.lookup(obj); for handler in self.handlers: handler(obj, cur)
Group_run(node, cur, v) ==
  IF v.exc # "None" THEN Fail(v.exc, cur)
  ELSE run_handlers(node.handlers, v.val, cur)

Group_call(node, o, cur) == Group_run(node, cur, Resolve(node.lookup, o))

\* if res: self.iftrue(obj, cur) elif self.iffalse is not None: self.iffalse(obj, cur)
Conditional_dispatch(node, o, cur, res) ==
  IF res.exc # "None" THEN Fail(res.exc, cur)
  ELSE IF res.val THEN Call(node.iftrue, o, cur)
  ELSE IF node.iffalse # NoNode THEN Call(node.iffalse, o, cur)
  ELSE Done(cur)

Conditional_call(node, o, cur) ==
  Conditional_dispatch(node, o, cur, Conditional_res(node, o))

\* handler(obj, cur)
Call(node, o, cur) ==
  CASE node.k = "Tag" -> Tag_call(node, o, cur)
    [] node.k = "Repetition" -> Repetition_call(node, o, cur)
    [] node.k = "Attribute" -> Attribute_call(node, o, cur)
    [] node.k = "Text" -> Text_call(node, o, cur)
    [] node.k = "Group" -> Group_call(node, o, cur)
    [] node.k = "Conditional" -> Conditional_call(node, o, cur)

\* parent = Element(":", [], [])
Placeholder == Element(<<":">>, <<>>, <<>>)

\* the placeholder parent after Fragment's handlers ran
Fragment_parent(node, o) == run_handlers(node.handlers, o, Placeholder)

\* return parent.content
Fragment_ret(p) == IF p.exc # "None" THEN Exc(p.exc) ELSE Val(PyList(p.cur.content))

Fragment_call(node, o) == Fragment_ret(Fragment_parent(node, o))

\* the placeholder parent after Document's handler ran
Document_parent(node, o) == Call(node.handler, o, Placeholder)

\* return parent.content[0]
Document_ret(p) ==
  IF p.exc # "None" THEN Exc(p.exc)
  ELSE IF Len(p.cur.content) = 0 THEN Exc("IndexError")
  ELSE Val(p.cur.content[1])

Document_call(node, o) == Document_ret(Document_parent(node, o))

\* builder(obj)
builder_call(node, o) ==
  IF node.k = "Document" THEN Document_call(node, o) ELSE Fragment_call(node, o)

(***************************************************************************)
(* Writing: Element.write_xml and write_document.  What a stream receives  *)
(* is the sequence of the values written to it, one for each call of       *)
(* write.                                                                  *)
(***************************************************************************)
RECURSIVE write_attrs(_)
\* for attr in self.attrs: five writes
write_attrs(attrs) ==
  IF Len(attrs) = 0 THEN <<>>
  ELSE << Unicode(Chars(" ")), Unicode(attrs[1][1]), Unicode(Chars("=\"")),
          Unicode(attrs[1][2]), Unicode(Chars("\"")) >>
       \o write_attrs(Tail(attrs))

RECURSIVE write_xml(_), write_content(_)
\* for child in self.content: child.write_xml(stream) or stream.write(child)
write_content(content) ==
  IF Len(content) = 0 THEN <<>>
  ELSE (IF content[1].t = "Element" THEN write_xml(content[1]) ELSE <<content[1]>>)
       \o write_content(Tail(content))

\* Element.write_xml(unicode_stream): the values written, in order
write_xml(e) ==
  << Unicode(Chars("<")), Unicode(e.tag) >> \o write_attrs(e.attrs)
  \o << Unicode(Chars(">")) >> \o write_content(e.content)
  \o << Unicode(Chars("</")), Unicode(e.tag), Unicode(Chars(">")) >>

\* unicode.encode(encoding): the characters of the model are ASCII, which the
\* encodings of the model encode to themselves
encode(s, encoding) == s

\* StreamWriteEncoder.write(obj): what reaches the wrapped stream
StreamWriteEncoder_write(v, encoding) ==
  IF v.t = "unicode" THEN PyStr(encode(v.s, encoding)) ELSE v

RECURSIVE join(_)
\* ''.join(parts)
join(parts) == IF Len(parts) = 0 THEN <<>> ELSE parts[1].s \o join(Tail(parts))

\* isinstance(tree, Document)
isinstance_Document(doc) == doc.t = "Document"

\* '<?xml version="1.0" encoding="%s"?>' % encoding
declaration(encoding) ==
  PyStr(Chars("<?xml version=\"1.0\" encoding=\"") \o encoding.s \o Chars("\"?>"))

\* the values written to _stream: the declaration, then tree.write_xml
document_writes(doc, encoding) ==
  (IF encoding # None /\ isinstance_Document(doc) THEN <<declaration(encoding)>>
   ELSE <<>>) \o write_xml(doc)

\* the values that reach the stream under a StreamWriteEncoder
RECURSIVE encoded(_, _)
encoded(writes, encoding) ==
  IF Len(writes) = 0 THEN <<>>
  ELSE <<StreamWriteEncoder_write(writes[1], encoding)>> \o encoded(Tail(writes), encoding)

Output(stream, ret) == [exc |-> "None", stream |-> stream, ret |-> ret]

\* write_document(tree, stream, encoding); given tells that a stream was
\* passed, fsenc is sys.getfilesystemencoding()
write_document(doc, given, encoding, fsenc) ==
  IF ~given /\ encoding = None
  THEN Output(<<>>, Unicode(join(document_writes(doc, encoding))))
  ELSE IF ~given
  THEN Output(<<>>, PyStr(join(encoded(document_writes(doc, encoding), encoding))))
  ELSE IF encoding = None
  THEN Output(encoded(document_writes(doc, fsenc), fsenc), None)
  ELSE Output(encoded(document_writes(doc, encoding), encoding), None)

(***************************************************************************)
(* The evaluation step by step, for calls of builder that run at the same  *)
(* time.  The Elements live in a heap, an Element holds the places of its  *)
(* child Elements, and a call holds the work it has left: handlers to      *)
(* call, tags to append once their handlers have run, and the return.  A   *)
(* step is what one thread does without another running in between: one    *)
(* handler entered, one Element made or one append.                        *)
(***************************************************************************)
Ref(i) == [t |-> "ref", at |-> i]

\* handler(obj, cur) is to be called
ToCall(node, o, cur) == [w |-> "call", node |-> node, o |-> o, cur |-> cur, tag |-> 0]
\* Tag.__call__ is to run cur.content.append(tag)
ToAppend(tag, cur) == [w |-> "append", node |-> NoNode, o |-> None, cur |-> cur, tag |-> tag]
\* Document.__call__ is to run return parent.content[0]
ToReturn(parent) == [w |-> "return", node |-> NoNode, o |-> None, cur |-> parent, tag |-> 0]

\* for handler in handlers: handler(obj, cur)
ToCallEach(handlers, o, cur) == [j \in 1..Len(handlers) |-> ToCall(handlers[j], o, cur)]
\* for item in items: self.handler(item, cur)
ToCallOn(handler, its, cur) == [j \in 1..Len(its) |-> ToCall(handler, its[j], cur)]

\* _stream.write(v) is to be called by write_document
ToWrite(v) == [w |-> "write", node |-> NoNode, o |-> v, cur |-> 0, tag |-> 0]
ToWriteEach(writes) == [j \in 1..Len(writes) |-> ToWrite(writes[j])]

RECURSIVE Deref(_, _)
\* the tree the content item v stands for, as write_xml walks it
Deref(h, v) ==
  IF v.t # "ref" THEN v
  ELSE Element(h[v.at].tag, h[v.at].attrs,
               [j \in 1..Len(h[v.at].content) |-> Deref(h, h[v.at].content[j])])

NotReturned == Exc("NotReturned")

\* a call of builder, alone or inside serialize: the value passed, the
\* caller's object as it is now, the placeholder parent, the work left, what
\* builder returned or raised, and for serialize the encoding of the
\* destination stream (None for builder alone) and what the stream received
Running(arg, o, parent, work, dest) ==
  [arg |-> arg, obj |-> o, parent |-> parent, work |-> work, ret |-> NotReturned,
   dest |-> dest, stream |-> <<>>]
Idle == Running(None, None, 0, <<>>, None)

\* the state after a step of a call: the heap and the call
Stepped(h, c) == [heap |-> h, call |-> c]
Continue(h, c, work) == Stepped(h, [c EXCEPT !.work = work])
Return(h, c, r) == Stepped(h, [c EXCEPT !.work = <<>>, !.ret = r])

\* Attribute.__call__ and Text.__call__: one append to a list of cur
step_append(h, c, it, r) ==
  IF r.exc # "None" THEN Return(h, c, Exc(r.exc))
  ELSE Continue([h EXCEPT ![it.cur] = r.cur], c, Tail(c.work))

\* a tag that is appended to cur as soon as it is made, before its handlers
step_tag_appended_first(h, c, it, n) ==
  IF n.exc # "None" THEN Return(h, c, Exc(n.exc))
  ELSE Continue(Append(h, Element(n.val, <<>>, <<>>)), c,
                <<ToAppend(Len(h) + 1, it.cur)>>
                \o ToCallEach(it.node.handlers, it.o, Len(h) + 1) \o Tail(c.work))

\* Tag.__call__: tag = Element(name, [], []), then the handlers on tag, then
\* the append to cur
step_tag(h, c, it, n) ==
  IF n.exc # "None" THEN Return(h, c, Exc(n.exc))
  ELSE Continue(Append(h, Element(n.val, <<>>, <<>>)), c,
                ToCallEach(it.node.handlers, it.o, Len(h) + 1)
                \o <<ToAppend(Len(h) + 1, it.cur)>> \o Tail(c.work))

\* a repetition that takes the items out of the caller's object as it goes
step_repetition_draining(h, c, it, its) ==
  IF its.exc # "None" THEN Return(h, c, Exc(its.exc))
  ELSE Continue(h, [c EXCEPT !.obj = IF Len(its.val) > 0 THEN None ELSE @],
                ToCallOn(it.node.handler, its.val, it.cur) \o Tail(c.work))

\* Repetition.__call__: the handler on each item
step_repetition(h, c, it, its) ==
  IF its.exc # "None" THEN Return(h, c, Exc(its.exc))
  ELSE Continue(h, c, ToCallOn(it.node.handler, its.val, it.cur) \o Tail(c.work))

\* Group.__call__: the handlers on the value looked up
step_group(h, c, it, v) ==
  IF v.exc # "None" THEN Return(h, c, Exc(v.exc))
  ELSE Continue(h, c, ToCallEach(it.node.handlers, v.val, it.cur) \o Tail(c.work))

\* Conditional.__call__: the branch chosen
step_conditional(h, c, it, res) ==
  IF res.exc # "None" THEN Return(h, c, Exc(res.exc))
  ELSE IF res.val THEN Continue(h, c, <<ToCall(it.node.iftrue, it.o, it.cur)>> \o Tail(c.work))
  ELSE IF it.node.iffalse # NoNode
  THEN Continue(h, c, <<ToCall(it.node.iffalse, it.o, it.cur)>> \o Tail(c.work))
  ELSE Continue(h, c, Tail(c.work))

step_call(h, c, it) ==
  CASE it.node.k \in {"Attribute", "Text"} -> step_append(h, c, it, Call(it.node, it.o, h[it.cur]))
    [] it.node.k = "Tag" -> step_tag(h, c, it, Tag_name(it.node, it.o))
    [] it.node.k = "Repetition" -> step_repetition(h, c, it, Repetition_items(it.node, it.o))
    [] it.node.k = "Group" -> step_group(h, c, it, Resolve(it.node.lookup, it.o))
    [] it.node.k = "Conditional" -> step_conditional(h, c, it, Conditional_res(it.node, it.o))

\* write_document(builder(obj), stream, encoding): the tree is built, its
\* writes are to come
step_serialize(h, c, root) ==
  Stepped(h, [c EXCEPT !.ret = Val(root),
                       !.work = ToWriteEach(document_writes(Deref(h, root), c.dest))])

\* return parent.content[0]
step_return(h, c, it) ==
  IF Len(h[it.cur].content) = 0 THEN Return(h, c, Exc("IndexError"))
  ELSE IF c.dest = None THEN Return(h, c, Val(h[it.cur].content[1]))
  ELSE step_serialize(h, c, h[it.cur].content[1])

\* _stream.write(obj) under the StreamWriteEncoder of the destination
step_write(h, c, it) ==
  Continue(h, [c EXCEPT !.stream = Append(@, StreamWriteEncoder_write(it.o, c.dest))],
           Tail(c.work))

\* the next step of the call c on the heap h
step(h, c, it) ==
  CASE it.w = "call" -> step_call(h, c, it)
    [] it.w = "append" ->
         Continue([h EXCEPT ![it.cur].content = Append(@, Ref(it.tag))], c, Tail(c.work))
    [] it.w = "return" -> step_return(h, c, it)
    [] it.w = "write" -> step_write(h, c, it)

(***************************************************************************)
(* Inputs: format strings and input values                                 *)
(***************************************************************************)
\* longest format string drawn character by character
MaxLen == 4
\* most handlers written inside the root tag of a structured format
MaxHandlers == 2

Alphabet == {"<", ">", "a", "*", "?", "~", " "}

RECURSIVE StringsUpTo(_)
StringsUpTo(n) ==
  IF n = 0 THEN {<<>>}
  ELSE LET shorter == StringsUpTo(n - 1)
       IN shorter \cup {Append(s, c) : s \in {x \in shorter : Len(x) = n - 1},
                                       c \in Alphabet}

\* productions written inside a tag
HandlerStrings == {
  Chars("<s>"), Chars("<s*?&?>"), Chars("<.0*?&.1>"), Chars("<s*2>"),
  Chars("=a?"), Chars("=?\"v\""), Chars("&?"), Chars("&.a"), Chars("&.1"),
  Chars("{.a&?}"), Chars("~??<t>~<f>"), Chars("~!??<t>~<f>"),
  Chars("~?/1<t>"), Chars("~1/?<t>~<f>"), Chars("~?=1&y~&n"), Chars("~!.a<1<t>") }

RECURSIVE Bodies(_)
\* the concatenations of at most n handler productions
Bodies(n) ==
  IF n = 0 THEN {<<>>}
  ELSE LET shorter == Bodies(n - 1)
       IN shorter \cup {b \o h : b \in shorter, h \in HandlerStrings}

StructuredFormats == {Chars("<r") \o b \o <<">">> : b \in Bodies(MaxHandlers)}

\* formats about names, quoting and malformed productions
SpecialFormats == {
  Chars("<root>"), Chars("<?>"), Chars("<xml>"), Chars("<XmL>"), Chars("<\"1a\">"),
  Chars("<a'b>"), Chars("<1a>"), Chars("<\"\\x\">"), Chars("<\"\\x41\">"),
  Chars("<\"a\\\"b\">"), Chars("<\"a b\"&\"\\n\">"),
  Chars("<root<s ub>>"), Chars("<r oot<sub>>"), Chars("<root >"),
  Chars("<root<&text>>"), Chars("<&text>"), Chars("<root<<ssub>>"),
  Chars("<root<=&text>>"), Chars("<=&text>"), Chars("<root<=<ssub>>>"),
  Chars("<root<=a&text>>"), Chars("<=a&text>"), Chars("<root<=a<ssub>>>"),
  Chars("<a><b>"), Chars("<a*2><b>"), Chars("<r>x"), Chars("<r~?%1<t>>"),
  Chars("<r=.>"), Chars("<r{.a.0=b?}>"), Chars("<r<s*\"ab\">>"),
  Chars("<r~.append?<t>>"), Chars("<r~.keys?<t>>"), Chars("<r~.real?<t>>"),
  Chars("<r&.123>"), Chars("<r&.a.1>"), Chars("<r<s=a?=a.0&?>>"), Chars("<r<?>>"), Chars("<r&.count>") }

\* the conditional productions among HandlerStrings that have no else
ElseLess == { Chars("~?/1<t>"), Chars("~!.a<1<t>") }

\* conditionals inside conditionals and after conditionals
ConditionalFormats ==
  {Chars("<r~??") \o c \o Chars("~<c>>") : c \in ElseLess}
  \cup { Chars("<r~??~??<a>~<b>~<c>>"), Chars("<r~??<a>~~??<b>>"),
         Chars("<r~??<a>~~??<b>~<c>>"), Chars("<r{.a~?/1<t>}~??<a>>") }

Prefixes(f) == {SubSeq(f, 1, n) : n \in 0..Len(f)}

Formats ==
  StringsUpTo(MaxLen)
  \cup UNION {Prefixes(f) : f \in StructuredFormats \cup SpecialFormats}
  \cup ConditionalFormats

Objects == <<
  None, PyInt(0), PyInt(1), PyInt(2), S(""), S("a"), S("1"), S("ab"),
  S("<&\">"), S("&lt;"),
  PyList(<<>>), PyList(<<PyInt(1)>>), PyList(<<PyInt(0)>>),
  PyList(<<S("a"), S("b")>>),
  Dict(<<>>), Dict(<< <<S("a"), PyInt(1)>> >>),
  Dict(<< <<S("a"), PyInt(1)>>, <<S("b"), PyInt(2)>> >>),
  Dict(<< <<S("a"), S("b")>> >>),
  Dict(<< <<S("a"), PyList(<<PyInt(1), PyInt(2)>>)>> >>),
  Dict(<< <<S(""), PyInt(1)>> >>), Dict(<< <<S("xml"), PyInt(1)>> >>),
  Dict(<< <<PyInt(123), PyInt(1)>> >>), Dict(<< <<S("123"), PyInt(1)>> >>) >>

(***************************************************************************)
(* The program: Compiler(fmt).compile(single_root), then builder(obj) any  *)
(* number of times on the compiled program.                                *)
(***************************************************************************)
\* the threads that call builder at the same time
Threads == {1, 2}

\* the addresses the input values of a run can be placed at: id(obj), in
\* hexadecimal
Ids == {Chars("7f01"), Chars("7f02")}

NotCompiled == Raise("NotCompiled", "", 0)
NotEvaluated == Exc("NotEvaluated")
\* a call of the serializer: its stream and encoding arguments and what came of it
WriteCall(given, encoding, res) == [given |-> given, encoding |-> encoding, res |-> res]
NotWritten == WriteCall(FALSE, None, [exc |-> "NotWritten", stream |-> <<>>, ret |-> None])

Init ==
  /\ fmt \in Formats
  /\ single_root = TRUE
  /\ builder = NotCompiled
  /\ obj = None
  /\ id = Chars("7f01")
  /\ tree = NotEvaluated
  /\ output = NotWritten
  /\ pc = "start"
  /\ heap = <<>>
  /\ calls = [k \in Threads |-> Idle]

\* builder = Compiler(fmt).compile(sr)
Compile(sr) ==
  /\ pc = "start"
  /\ single_root' = sr
  /\ builder' = Compiler_compile(fmt, sr)
  /\ pc' = IF builder'.exc = "None" THEN "compiled" ELSE "raised"
  /\ UNCHANGED <<fmt, obj, id, tree, output, heap, calls>>

\* the caller's allocator places the input values of the run at the address a
Place(a) ==
  /\ pc = "compiled"
  /\ id' = a
  /\ UNCHANGED <<fmt, single_root, builder, obj, tree, output, pc, heap, calls>>

\* a program whose nodes keep what the first evaluation built
Evaluate_first_kept(o) ==
  /\ pc \in {"compiled", "evaluated", "written"}
  /\ obj' = o
  /\ tree' = IF pc = "compiled" THEN builder_call(builder.node, o) ELSE tree
  /\ output' = NotWritten
  /\ pc' = "evaluated"
  /\ UNCHANGED <<fmt, single_root, builder, id, heap, calls>>

\* tree = builder(o); nothing is written of the new tree yet
Evaluate(o) ==
  /\ pc \in {"compiled", "evaluated", "written"}
  /\ obj' = o
  /\ tree' = builder_call(builder.node, o)
  /\ output' = NotWritten
  /\ pc' = "evaluated"
  /\ UNCHANGED <<fmt, single_root, builder, id, heap, calls>>

Next ==
  \/ \E sr \in BOOLEAN : Compile(sr)
  \/ \E i \in 1..Len(Objects) : Evaluate(Objects[i])

Spec == Init /\ [][Next]_vars

(***************************************************************************)
(* The serializer: serialize(fmt, obj, stream, encoding) and the function  *)
(* made by make_serializer compile in single-root mode, evaluate, and hand *)
(* the tree to write_document.                                             *)
(***************************************************************************)
\* the formats written out
WriteFormats ==
  {Chars("<r") \o b \o <<">">> : b \in Bodies(1)}
  \cup { Chars("<?>"), Chars("<r=a?=a?>"), Chars("<r=a?=a\"v\"&?<s>>"),
         Chars("<r<s*?=a?&?>&?>"), Chars("<r&?=a?&\"x\"=b?>"),
         Chars("<r<s=a?<t&?>>=b.0>") }

\* the values of the encoding argument
Encodings == <<None, S("utf-8"), S("latin1")>>

\* the values sys.getfilesystemencoding() returns
FileSystemEncodings == {S("UTF-8"), S("ANSI_X3.4-1968")}

InitWrite ==
  /\ fmt \in WriteFormats
  /\ single_root = TRUE
  /\ builder = NotCompiled
  /\ obj = None
  /\ id = Chars("7f01")
  /\ tree = NotEvaluated
  /\ output = NotWritten
  /\ pc = "start"
  /\ heap = <<>>
  /\ calls = [k \in Threads |-> Idle]

\* output = write_document(tree, stream, encoding) after builder(obj) returned
Write(given, encoding, fsenc) ==
  /\ pc = "evaluated"
  /\ tree.exc = "None"
  /\ output' = WriteCall(given, encoding, write_document(tree.val, given, encoding, fsenc))
  /\ pc' = "written"
  /\ UNCHANGED <<fmt, single_root, builder, obj, id, tree, heap, calls>>

NextWrite ==
  \/ Compile(TRUE)
  \/ \E i \in 1..Len(Objects) : Evaluate(Objects[i])
  \/ \E given \in BOOLEAN, e \in 1..Len(Encodings), fsenc \in FileSystemEncodings :
       Write(given, Encodings[e], fsenc)

SpecWrite == InitWrite /\ [][NextWrite]_vars

(***************************************************************************)
(* The same program on inputs placed at different addresses.  Spec and     *)
(* SpecWrite keep the inputs at one address; here the address varies, for  *)
(* the texts that name it.                                                 *)
(***************************************************************************)
PlacedFormats ==
  {Chars("<r") \o b \o <<">">> : b \in Bodies(1)}
  \cup { Chars("<r&.count>"), Chars("<r=a.count>"), Chars("<r<s*?&.real>>"),
         Chars("<r~.count?<t>~<f>>"), Chars("<r&.a.1>"), Chars("<r<?>>") }

InitPlaced ==
  /\ fmt \in PlacedFormats
  /\ single_root = TRUE
  /\ builder = NotCompiled
  /\ obj = None
  /\ id = Chars("7f01")
  /\ tree = NotEvaluated
  /\ output = NotWritten
  /\ pc = "start"
  /\ heap = <<>>
  /\ calls = [k \in Threads |-> Idle]

NextPlaced ==
  \/ \E sr \in BOOLEAN : Compile(sr)
  \/ \E a \in Ids : Place(a)
  \/ \E i \in 1..Len(Objects) : Evaluate(Objects[i])

SpecPlaced == InitPlaced /\ [][NextPlaced]_vars

(***************************************************************************)
(* Calls of one compiled program that run at the same time: each thread    *)
(* calls builder once, and the steps of the calls interleave.              *)
(***************************************************************************)
ConcFormats ==
  { Chars("<r=a?&?>"), Chars("<r<s*?&?>>"), Chars("<r<s=a?>&?>"),
    Chars("<r{.a&?}>"), Chars("<r~?<t>~<f>>"), Chars("<?>") }

ConcObjects == << None, S("ab"), PyList(<<PyInt(1), PyInt(2)>>),
                  Dict(<< <<S("a"), PyInt(1)>> >>) >>

InitConc ==
  /\ fmt \in ConcFormats
  /\ single_root = TRUE
  /\ builder = NotCompiled
  /\ obj = None
  /\ id = Chars("7f01")
  /\ tree = NotEvaluated
  /\ output = NotWritten
  /\ pc = "start"
  /\ heap = <<>>
  /\ calls = [k \in Threads |-> Idle]

\* a Document node that keeps one placeholder parent for all its calls
Begin_parent_kept(k, o) ==
  /\ pc = "compiled"
  /\ calls[k] = Idle
  /\ heap' = IF Len(heap) = 0 THEN <<Placeholder>> ELSE heap
  /\ calls' = [calls EXCEPT ![k] =
                 Running(o, o, 1, <<ToCall(builder.node.handler, o, 1), ToReturn(1)>>, None)]
  /\ UNCHANGED <<fmt, single_root, builder, obj, id, tree, output, pc>>

\* thread k calls builder(o): parent = Element(":", [], [])
Begin(k, o) ==
  /\ pc = "compiled"
  /\ calls[k] = Idle
  /\ heap' = Append(heap, Placeholder)
  /\ calls' = [calls EXCEPT ![k] =
                 Running(o, o, Len(heap) + 1,
                         <<ToCall(builder.node.handler, o, Len(heap) + 1),
                           ToReturn(Len(heap) + 1)>>, None)]
  /\ UNCHANGED <<fmt, single_root, builder, obj, id, tree, output, pc>>

\* thread k runs the next step of its call
Advance(k) ==
  /\ Len(calls[k].work) > 0
  /\ heap' = step(heap, calls[k], calls[k].work[1]).heap
  /\ calls' = [calls EXCEPT ![k] = step(heap, calls[k], calls[k].work[1]).call]
  /\ UNCHANGED <<fmt, single_root, builder, obj, id, tree, output, pc>>

NextConc ==
  \/ Compile(TRUE)
  \/ \E k \in Threads, i \in 1..Len(ConcObjects) : Begin(k, ConcObjects[i])
  \/ \E k \in Threads : Advance(k)

SpecConc == InitConc /\ [][NextConc]_vars

(***************************************************************************)
(* serialize(fmt, obj, stream, encoding) step by step: the evaluation,     *)
(* then the writes to the destination stream one at a time.                *)
(***************************************************************************)
StreamFormats ==
  ConcFormats \cup { Chars("<r<s&.a>>"), Chars("<r&?<s=a.a>>"), Chars("<r=a?<s*?&.a>>") }

InitStream ==
  /\ fmt \in StreamFormats
  /\ single_root = TRUE
  /\ builder = NotCompiled
  /\ obj = None
  /\ id = Chars("7f01")
  /\ tree = NotEvaluated
  /\ output = NotWritten
  /\ pc = "start"
  /\ heap = <<>>
  /\ calls = [k \in Threads |-> Idle]

\* thread k calls serialize(fmt, o, stream, encoding); fsenc is
\* sys.getfilesystemencoding(), the encoding when none is given
Serialize(k, o, encoding, fsenc) ==
  /\ pc = "compiled"
  /\ calls[k] = Idle
  /\ heap' = Append(heap, Placeholder)
  /\ calls' = [calls EXCEPT ![k] =
                 Running(o, o, Len(heap) + 1,
                         <<ToCall(builder.node.handler, o, Len(heap) + 1),
                           ToReturn(Len(heap) + 1)>>,
                         IF encoding = None THEN fsenc ELSE encoding)]
  /\ UNCHANGED <<fmt, single_root, builder, obj, id, tree, output, pc>>

NextStream ==
  \/ Compile(TRUE)
  \/ \E i \in 1..Len(ConcObjects), e \in 1..Len(Encodings), fsenc \in FileSystemEncodings :
       Serialize(1, ConcObjects[i], Encodings[e], fsenc)
  \/ Advance(1)

SpecStream == InitStream /\ [][NextStream]_vars

\* Compiler(fmt).compile(single_root) alone: the formats of Init, parsed with
\* either value of single_root and never evaluated.
NextParse == \E sr \in BOOLEAN : Compile(sr)

SpecParse == Init /\ [][NextParse]_vars

(***************************************************************************)
(* Reading the state                                                       *)
(***************************************************************************)
Compiled == pc \in {"compiled", "evaluated", "written"}
Evaluated == pc \in {"evaluated", "written"}
Written == pc = "written"

RECURSIVE CompleteTags(_, _)
\* the tag parsed from idx is complete and complete tags follow it to the end
CompleteRest(f, r) == r.exc = "None" /\ CompleteTags(f, r.idx)

\* f from idx on consists of zero or more complete tags and nothing else
CompleteTags(f, idx) ==
  \/ idx = Len(f)
  \/ /\ idx < Len(f)
     /\ At(f, idx) = "<"
     /\ CompleteRest(f, Compiler_tag(f, idx + 1, FALSE))

\* the proper prefixes of fmt that compile in single-root mode
CompilingPrefixes ==
  {n \in 0..(Len(fmt) - 1) : Compiler_compile(SubSeq(fmt, 1, n), TRUE).exc = "None"}

\* the root tag's name was parsed and is followed by the repetition mark
RepeatedRoot(r) == r.exc = "None" /\ r.idx < Len(fmt) /\ At(fmt, r.idx) = "*"

(***************************************************************************)
(* C1: compiling in multi-root mode a format string that consists of zero  *)
(* or more complete top-level tags (the empty string included) succeeds    *)
(* and returns a Fragment.                                                 *)
(***************************************************************************)
C1_MultiRootCompiles ==
  (pc # "start" /\ ~single_root /\ CompleteTags(fmt, 0))
    => (builder.exc = "None" /\ builder.node.k = "Fragment")

(***************************************************************************)
(* C2: single-root compilation succeeds only on exactly one complete root  *)
(* tag that is not repeated: no proper prefix of a format that compiles    *)
(* compiles itself, a format that extends a compiling one is rejected with *)
(* the tail error at the first character after the root tag, a `*` after   *)
(* the root tag's name is rejected, and the compiled Document holds one    *)
(* Tag.  Whenever the evaluation of the Document completes, the            *)
(* placeholder parent holds exactly one item, the root Element, which is   *)
(* the result.                                                             *)
(***************************************************************************)
C2_SingleRoot ==
  /\ (pc \in {"compiled", "raised"} /\ single_root) =>
       /\ builder.exc = "None" =>
            /\ builder.node.k = "Document"
            /\ builder.node.handler.k = "Tag"
            /\ CompilingPrefixes = {}
       /\ CompilingPrefixes # {} =>
            /\ builder.exc = "SerializationFormatError"
            /\ builder.msg = "Unprocessed tail"
            /\ CompilingPrefixes = {builder.idx}
       /\ (Len(fmt) > 0 /\ fmt[1] = "<"
           /\ RepeatedRoot(Compiler_val(fmt, 1, TRUE, TRUE, FALSE))) =>
            /\ builder.exc = "InvalidTag"
            /\ builder.msg = "Root tag cannot be repeated"
  /\ (Evaluated /\ tree.exc = "None") =>
       /\ Len(Document_parent(builder.node, obj).cur.content) = 1
       /\ tree.val.t = "Element"
       /\ tree.val = Document_parent(builder.node, obj).cur.content[1]

\* a root tag with two handlers was compiled and evaluated to an Element
C2_Witness ==
  /\ Evaluated /\ single_root /\ tree.exc = "None"
  /\ Len(builder.node.handler.handlers) = 2
  /\ Len(tree.val.content) > 0

(***************************************************************************)
(* C3: for every format string compile returns a compiled program or fails *)
(* with SerializationFormatError or one of its subclasses; no other kind   *)
(* of error escapes.                                                       *)
(***************************************************************************)
C3_OnlyFormatErrors == pc = "raised" => builder.exc \in FormatErrors

C5_LiteralNamesChecked ==
  (Compiled /\ builder.node.k = "Document"
   /\ builder.node.handler.name.k = "Literal")
    => check_tag(force_unicode(builder.node.handler.name.value)).exc = "None"

(***************************************************************************)
(* Reading an evaluation: the root tag of the Document, its handlers, the  *)
(* root Element before handler i runs, and the result of the evaluation    *)
(* given the root Element after handler i.                                 *)
(***************************************************************************)
RootTag == builder.node.handler
RootHandlers == RootTag.handlers

RootChecked(n) == IF n.exc # "None" THEN n ELSE check_tag(force_unicode(n.val))
RootNew == RootChecked(Resolve(RootTag.name, obj))

RunFrom(handlers, root) ==
  IF root.exc # "None" THEN Fail(root.exc, Placeholder)
  ELSE run_handlers(handlers, obj, Element(root.val, <<>>, <<>>))

Before(i) == RunFrom(SubSeq(RootHandlers, 1, i - 1), RootNew)

Finished(r) == IF r.exc # "None" THEN Exc(r.exc) ELSE Val(r.cur)

After(i, r) ==
  IF r.exc # "None" THEN Exc(r.exc)
  ELSE Finished(run_handlers(SubSeq(RootHandlers, i + 1, Len(RootHandlers)), obj, r.cur))

\* the evaluation of the root tag with handler i left out
Without(i) ==
  Finished(RunFrom(SubSeq(RootHandlers, 1, i - 1)
                   \o SubSeq(RootHandlers, i + 1, Len(RootHandlers)), RootNew))

\* handler i of the root tag is a repetition reached with no error
RootRepetition(i) ==
  /\ RootHandlers[i].k = "Repetition"
  /\ Before(i).exc = "None"

\* the resolved source of the repetition
Source(i) == Resolve(RootHandlers[i].replist.handler, obj)

\* the values a repetition can run over
Iterable(v) == v.t \in {"dict", "int", "list", "tuple", "str"}

\* the items the claims give for a source value
CoercedItems(v) ==
  CASE v.t = "dict" -> [j \in 1..Len(v.pairs) |-> PyTuple(<<v.pairs[j][1], v.pairs[j][2]>>)]
    [] v.t = "int" -> [j \in 1..(IF v.n > 0 THEN v.n ELSE 0) |-> PyInt(j - 1)]
    [] v.t \in {"list", "tuple"} -> v.items
    [] v.t = "str" -> [j \in 1..Len(v.s) |-> PyStr(<<v.s[j]>>)]

RECURSIVE Siblings(_, _, _)
\* cur with one Element per item appended, each built by the tag on its own item
SiblingOf(tag, its, cur, e) ==
  IF e.exc # "None" THEN Fail(e.exc, cur)
  ELSE Siblings(tag, Tail(its), [cur EXCEPT !.content = Append(@, e.cur.content[1])])

Siblings(tag, its, cur) ==
  IF Len(its) = 0 THEN Done(cur)
  ELSE SiblingOf(tag, its, cur, Tag_call(tag, its[1], Placeholder))

(***************************************************************************)
(* C6: a repeated tag whose source resolves to n items appends n sibling   *)
(* Elements to the parent, in item order, each built by the inner tag on   *)
(* its item; with n = 0 nothing is appended, nothing fails and the result  *)
(* is that of the same handlers without the repetition.                    *)
(***************************************************************************)
C6_Repetition ==
  Evaluated => \A i \in 1..Len(RootHandlers) :
    (RootRepetition(i) /\ Source(i).exc = "None" /\ Iterable(Source(i).val)) =>
      /\ tree = After(i, Siblings(RootHandlers[i].handler,
                                  CoercedItems(Source(i).val), Before(i).cur))
      /\ Len(CoercedItems(Source(i).val)) = 0 => tree = Without(i)

\* <r<.0*?&.1><s*2>> was evaluated on an empty mapping: no tag from the first
\* repetition, whose lookups .0 and .1 have no item to run on, two from the next
C6_Witness ==
  /\ Evaluated /\ tree.exc = "None"
  /\ Len(RootHandlers) = 2
  /\ RootRepetition(1) /\ Source(1).exc = "None" /\ Source(1).val = Dict(<<>>)
  /\ RootHandlers[1].handler.name = AttrLookup(<<PyInt(0)>>)
  /\ RootHandlers[1].handler.handlers = <<Text(AttrLookup(<<PyInt(1)>>))>>
  /\ RootRepetition(2) /\ Source(2).exc = "None" /\ Source(2).val = PyInt(2)
  /\ Len(tree.val.content) = 2

\* the items the repetition iterates
Iterated(l) == IF l.exc # "None" THEN l ELSE iter(l.val)

(***************************************************************************)
(* C7: the coercion of a repetition source: a mapping becomes its (key,    *)
(* value) pairs in the mapping's order, an integer n becomes 0 .. n-1      *)
(* (nothing for n <= 0), any other value is iterated as it is, and a value *)
(* that cannot be iterated makes the evaluation fail with TypeError.       *)
(***************************************************************************)
C7_Coercion ==
  Evaluated => \A i \in 1..Len(RootHandlers) :
    (RootRepetition(i) /\ Source(i).exc = "None") =>
      /\ Iterable(Source(i).val) =>
           /\ Iterated(List_call(RootHandlers[i].replist.handler, obj))
                = Val(CoercedItems(Source(i).val))
           /\ Source(i).val.t \in {"dict", "int"} =>
                List_call(RootHandlers[i].replist.handler, obj)
                  = Val(PyList(CoercedItems(Source(i).val)))
           /\ Source(i).val.t \notin {"dict", "int"} =>
                List_call(RootHandlers[i].replist.handler, obj) = Source(i)
           /\ tree.exc = "None" =>
                Len(tree.val.content) >= Len(Before(i).cur.content)
                                         + Len(CoercedItems(Source(i).val))
      /\ ~Iterable(Source(i).val) => tree.exc = "TypeError"

\* a repetition over a mapping of two pairs was evaluated
C7_Witness ==
  /\ Evaluated /\ tree.exc = "None"
  /\ Len(RootHandlers) = 1 /\ RootRepetition(1)
  /\ Source(1).exc = "None" /\ Source(1).val.t = "dict"
  /\ Len(Source(1).val.pairs) = 2
  /\ Len(tree.val.content) = 2

\* handler i of the root tag generates tags from a mapping: a repetition over
\* a mapping whose tag is named by the lookup .0
DictTags(i) ==
  /\ RootRepetition(i)
  /\ RootHandlers[i].handler.name = AttrLookup(<<PyInt(0)>>)
  /\ Source(i).exc = "None" /\ Source(i).val.t = "dict"

RECURSIVE KeyedSiblings(_, _, _, _)
\* cur with one Element per pair appended, named by the pair's key, its
\* handlers run on the pair's value (byvalue) or on the pair itself
KeyedChildren(tag, pairs, cur, byvalue, e) ==
  IF e.exc # "None" THEN Fail(e.exc, cur)
  ELSE KeyedSiblings(tag, Tail(pairs), [cur EXCEPT !.content = Append(@, e.cur)], byvalue)

KeyedNamed(tag, pairs, cur, byvalue, n) ==
  IF n.exc # "None" THEN Fail(n.exc, cur)
  ELSE KeyedChildren(tag, pairs, cur, byvalue,
         run_handlers(tag.handlers,
                      IF byvalue THEN pairs[1][2] ELSE PyTuple(<<pairs[1][1], pairs[1][2]>>),
                      Element(n.val, <<>>, <<>>)))

KeyedSiblings(tag, pairs, cur, byvalue) ==
  IF Len(pairs) = 0 THEN Done(cur)
  ELSE KeyedNamed(tag, pairs, cur, byvalue, check_tag(force_unicode(pairs[1][1])))

\* C8 as claimed: the key names the tag, the children are evaluated against
\* the pair's value
C8_ChildrenSeeValue ==
  Evaluated => \A i \in 1..Len(RootHandlers) :
    DictTags(i) =>
      tree = After(i, KeyedSiblings(RootHandlers[i].handler, Source(i).val.pairs,
                                    Before(i).cur, TRUE))

(***************************************************************************)
(* C8: when tags are generated from a mapping, each (key, value) pair is   *)
(* itself the current value of its tag: the key, selected by .0, names the *)
(* tag and the tag's children are evaluated against the pair, so .1        *)
(* selects the pair's value.                                               *)
(***************************************************************************)
C8_ChildrenSeePair ==
  Evaluated => \A i \in 1..Len(RootHandlers) :
    DictTags(i) =>
      /\ tree = After(i, KeyedSiblings(RootHandlers[i].handler, Source(i).val.pairs,
                                       Before(i).cur, FALSE))
      /\ (tree.exc = "None" /\ Len(RootHandlers) = 1 /\ Len(Source(i).val.pairs) = 1
          /\ RootHandlers[i].handler.handlers = <<Text(AttrLookup(<<PyInt(1)>>))>>) =>
           tree.val.content =
             << Element(force_unicode(Source(i).val.pairs[1][1]), <<>>,
                        << Unicode(escape(force_unicode(Source(i).val.pairs[1][2]))) >>) >>

\* <r<.0*?&.1>> was evaluated on a mapping of one pair
C8_Witness ==
  /\ Evaluated /\ tree.exc = "None"
  /\ Len(RootHandlers) = 1 /\ DictTags(1)
  /\ Len(Source(1).val.pairs) = 1
  /\ RootHandlers[1].handler.handlers = <<Text(AttrLookup(<<PyInt(1)>>))>>
  /\ Len(tree.val.content) = 1

\* handler i of the root tag is a conditional reached with no error whose
\* operands resolve
RootConditional(i) ==
  /\ RootHandlers[i].k = "Conditional"
  /\ Before(i).exc = "None"
  /\ Resolve(RootHandlers[i].lhs, obj).exc = "None"
  /\ RootHandlers[i].rhs # NoNode => Resolve(RootHandlers[i].rhs, obj).exc = "None"

Lhs(i) == Resolve(RootHandlers[i].lhs, obj).val
Rhs(i) ==
  IF RootHandlers[i].rhs # NoNode THEN Resolve(RootHandlers[i].rhs, obj).val ELSE None

\* the predicate of the conditional before negation
Predicate(i) == apply_op(RootHandlers[i].op.name, Lhs(i), Rhs(i))

\* the root Element after the branch a predicate value selects
Branch(i, pred) ==
  IF pred THEN Call(RootHandlers[i].iftrue, obj, Before(i).cur)
  ELSE IF RootHandlers[i].iffalse # NoNode
       THEN Call(RootHandlers[i].iffalse, obj, Before(i).cur)
  ELSE Done(Before(i).cur)

\* fmt is <r~! followed by more
NegatedFirst == Len(fmt) > 4 /\ SubSeq(fmt, 1, 4) = Chars("<r~!")
\* fmt without that !
Unnegated == Chars("<r~") \o SubSeq(fmt, 5, Len(fmt))

NegationOf(b, u) ==
  /\ b.exc = u.exc
  /\ b.exc = "None" =>
       /\ u.node.handler.handlers[1].op.negate = FALSE
       /\ b.node = [u.node EXCEPT !.handler.handlers[1].op.negate = TRUE]

(***************************************************************************)
(* C9: a conditional runs exactly one branch or none: `then` when the      *)
(* predicate, negated if ! was written, is true; `else` when it is false   *)
(* and an else is present; nothing otherwise.  Writing ! changes the       *)
(* compiled conditional in its negation alone, so the dispatch is the      *)
(* opposite one on every input.                                            *)
(***************************************************************************)
C9_Dispatch ==
  /\ Evaluated => \A i \in 1..Len(RootHandlers) :
       (RootConditional(i) /\ Predicate(i).exc = "None") =>
         /\ tree = After(i, Branch(i, Predicate(i).val # RootHandlers[i].op.negate))
         /\ (Predicate(i).val = RootHandlers[i].op.negate
             /\ RootHandlers[i].iffalse = NoNode) => tree = Without(i)
  /\ (Compiled /\ NegatedFirst) =>
       NegationOf(builder, Compiler_compile(Unnegated, TRUE))

\* <r~!??<t>~<f>> was evaluated on a true value and emitted f alone
C9_Witness ==
  /\ Evaluated /\ tree.exc = "None" /\ NegatedFirst
  /\ Len(RootHandlers) = 1 /\ RootConditional(1)
  /\ RootHandlers[1].op = Op("truth", TRUE)
  /\ RootHandlers[1].iffalse # NoNode
  /\ truth(obj)
  /\ tree.val.content = << Element(Chars("f"), <<>>, <<>>) >>

\* x is an element of the collection c
IsMember(x, c) ==
  CASE c.t \in {"list", "tuple"} -> \E j \in 1..Len(c.items) : c.items[j] = x
    [] c.t = "dict" -> HasKey(c.pairs, x)
    [] c.t = "str" -> x.t = "str" /\ substring(c.s, x.s)
    [] OTHER -> FALSE

\* c is a collection that can be asked whether it holds x
CanHold(c, x) ==
  \/ c.t \in {"list", "tuple"}
  \/ c.t = "dict" /\ hashable(x)
  \/ c.t = "str" /\ x.t = "str"

RootContainment(i) == RootConditional(i) /\ RootHandlers[i].op.name = "contains"

\* C10 as claimed: lhs/rhs is true exactly when lhs is an element of rhs
C10_LhsInRhs ==
  Evaluated => \A i \in 1..Len(RootHandlers) :
    (RootContainment(i) /\ Predicate(i).exc = "None") =>
      tree = After(i, Branch(i, IsMember(Lhs(i), Rhs(i)) # RootHandlers[i].op.negate))

(***************************************************************************)
(* C10: the containment operator tests membership of the right-hand value  *)
(* in the left-hand collection: lhs/rhs is true exactly when rhs is an     *)
(* element of a list or tuple lhs, a key of a mapping lhs or a substring   *)
(* of a string lhs; when lhs cannot hold rhs the evaluation fails with     *)
(* TypeError.                                                              *)
(***************************************************************************)
C10_RhsInLhs ==
  Evaluated => \A i \in 1..Len(RootHandlers) :
    RootContainment(i) =>
      tree = IF CanHold(Lhs(i), Rhs(i))
             THEN After(i, Branch(i, IsMember(Rhs(i), Lhs(i)) # RootHandlers[i].op.negate))
             ELSE Exc("TypeError")

\* <r~?/1<t>> was evaluated on [1] and emitted t
C10_Witness ==
  /\ Evaluated /\ tree.exc = "None"
  /\ Len(RootHandlers) = 1 /\ RootContainment(1)
  /\ Lhs(1) = PyList(<<PyInt(1)>>) /\ Rhs(1) = PyInt(1)
  /\ Len(tree.val.content) = 1

(***************************************************************************)
(* Reading a lookup: handler i of the root tag is a text production whose  *)
(* value is a lookup, reached with no error.                               *)
(***************************************************************************)
RootLookup(i) ==
  /\ RootHandlers[i].k = "Text"
  /\ RootHandlers[i].text.k = "AttrLookup"
  /\ Len(RootHandlers[i].text.keys) > 0
  /\ Before(i).exc = "None"

Keys(i) == RootHandlers[i].text.keys

\* o has an attribute named by the characters n
HasAttribute(o, n) ==
  \/ \E m \in MethodNames(o.t) : Chars(m) = n
  \/ o.t = "int" /\ n \in {Chars("real"), Chars("imag"), Chars("numerator"),
                           Chars("denominator")}

\* the key k cannot be resolved against the value o
Unresolvable(o, k) ==
  IF k.t = "int"
  THEN CASE o.t = "dict" -> ~HasKey(o.pairs, k) /\ ~HasKey(o.pairs, PyStr(str_int(k.n)))
         [] o.t \in {"list", "tuple"} -> k.n >= Len(o.items)
         [] o.t = "str" -> k.n >= Len(o.s)
         [] OTHER -> TRUE
  ELSE CASE o.t = "dict" -> ~HasKey(o.pairs, k)
         [] OTHER -> ~HasAttribute(o, k.s)

\* the error of a key that cannot be resolved
LookupFailure(o, k) ==
  IF o.t = "dict" THEN "KeyError"
  ELSE IF k.t # "int" THEN "AttributeError"
  ELSE IF o.t \in {"list", "tuple", "str"} THEN "KeyError"
  ELSE "TypeError"

\* C11 as claimed: a lookup step that cannot resolve its key fails with a
\* lookup error, the same kind in every case
C11_OneLookupError ==
  Evaluated => \A i \in 1..Len(RootHandlers) :
    (RootLookup(i) /\ Len(Keys(i)) = 1 /\ Unresolvable(obj, Keys(i)[1])) =>
      tree.exc \in {"LookupError", "KeyError", "IndexError"}

(***************************************************************************)
(* C11: a lookup step that cannot resolve its key makes the evaluation     *)
(* fail and never yields an empty or default value; the error is KeyError  *)
(* for a mapping without the key and for an index out of range,            *)
(* AttributeError for a name key on a value that is no mapping and has no  *)
(* such attribute, TypeError for a numeric key on a value that cannot be   *)
(* indexed.                                                                *)
(***************************************************************************)
C11_LookupFails ==
  Evaluated => \A i \in 1..Len(RootHandlers) :
    RootLookup(i) =>
      /\ (Len(Keys(i)) = 1 /\ Unresolvable(obj, Keys(i)[1])) =>
           tree.exc = LookupFailure(obj, Keys(i)[1])
      /\ Resolve(RootHandlers[i].text, obj).exc # "None" =>
           /\ tree.exc = Resolve(RootHandlers[i].text, obj).exc
           /\ tree.exc \in {"KeyError", "AttributeError", "TypeError"}

\* <r&.1> was evaluated on a list of one item
C11_Witness ==
  /\ Evaluated /\ Len(RootHandlers) = 1 /\ RootLookup(1)
  /\ Keys(1) = <<PyInt(1)>>
  /\ obj.t = "list" /\ Len(obj.items) = 1
  /\ tree.exc = "KeyError"

\* the attribute of o named by the characters n
AttributeOf(o, n) ==
  IF \E m \in MethodNames(o.t) : Chars(m) = n THEN Method(o, n)
  ELSE IF n = Chars("imag") THEN PyInt(0)
  ELSE IF n = Chars("denominator") THEN PyInt(1)
  ELSE o

\* one lookup step as the two strategies give it
Step(o, k) ==
  IF k.t = "int"
  THEN CASE o.t = "dict" ->
              IF HasKey(o.pairs, k) THEN Val(GetKey(o.pairs, k))
              ELSE IF HasKey(o.pairs, PyStr(str_int(k.n)))
                   THEN Val(GetKey(o.pairs, PyStr(str_int(k.n))))
              ELSE Exc("KeyError")
         [] o.t \in {"list", "tuple"} ->
              IF k.n < Len(o.items) THEN Val(o.items[k.n + 1]) ELSE Exc("KeyError")
         [] o.t = "str" ->
              IF k.n < Len(o.s) THEN Val(PyStr(<<o.s[k.n + 1]>>)) ELSE Exc("KeyError")
         [] OTHER -> Exc("TypeError")
  ELSE IF o.t = "dict"
       THEN IF HasKey(o.pairs, k) THEN Val(GetKey(o.pairs, k)) ELSE Exc("KeyError")
  ELSE IF HasAttribute(o, k.s) THEN Val(AttributeOf(o, k.s))
  ELSE Exc("AttributeError")

RECURSIVE Chain(_, _)
\* the keys applied left to right, each to the result of the step before
ChainNext(keys, r) == IF r.exc # "None" THEN r ELSE Chain(Tail(keys), r.val)
Chain(keys, o) == IF Len(keys) = 0 THEN Val(o) ELSE ChainNext(keys, Step(o, keys[1]))

\* the root Element with the text of a resolved value appended
TextOf(cur, r) ==
  IF r.exc # "None" THEN Fail(r.exc, cur)
  ELSE Done([cur EXCEPT !.content = Append(@, Unicode(escape(force_unicode(r.val))))])

\* handler i of the root tag tests the truth of a lookup of one name key
RootTruthOfName(i) ==
  /\ RootHandlers[i].k = "Conditional"
  /\ RootHandlers[i].op = Op("truth", FALSE)
  /\ RootHandlers[i].lhs.k = "AttrLookup"
  /\ Len(RootHandlers[i].lhs.keys) = 1
  /\ RootHandlers[i].lhs.keys[1].t = "str"
  /\ Before(i).exc = "None"

\* C12 as claimed: a name key that the keyed access does not resolve, a
\* mapping that lacks the key included, is resolved by field-style access
C12_FieldAfterMissingKey ==
  Evaluated => \A i \in 1..Len(RootHandlers) :
    (RootTruthOfName(i) /\ HasAttribute(obj, RootHandlers[i].lhs.keys[1].s)) =>
      tree.exc # "KeyError"

(***************************************************************************)
(* C12: a lookup step for a numeric key uses indexed access and, when that *)
(* reports a missing key, string-keyed access with the key's decimal text  *)
(* (an index out of range fails with KeyError, a value that cannot be      *)
(* indexed with TypeError); a step for a name key uses keyed access on a   *)
(* mapping, where a missing key fails with KeyError, and field-style       *)
(* access on every other value.  The keys of a chain are applied left to   *)
(* right, each to the result of the step before.                           *)
(***************************************************************************)
C12_TwoStrategies ==
  Evaluated => \A i \in 1..Len(RootHandlers) :
    /\ RootLookup(i) =>
         tree = After(i, TextOf(Before(i).cur, Chain(Keys(i), obj)))
    /\ RootTruthOfName(i) =>
         /\ Resolve(RootHandlers[i].lhs, obj) = Chain(RootHandlers[i].lhs.keys, obj)
         /\ Chain(RootHandlers[i].lhs.keys, obj).exc # "None" =>
              tree.exc = Chain(RootHandlers[i].lhs.keys, obj).exc

\* <r&.123> was evaluated on a mapping with the key "123" and no key 123
C12_Witness ==
  /\ Evaluated /\ tree.exc = "None"
  /\ Len(RootHandlers) = 1 /\ RootLookup(1)
  /\ Keys(1) = <<PyInt(123)>>
  /\ obj.t = "dict" /\ ~HasKey(obj.pairs, PyInt(123))
  /\ tree.val.content = << Unicode(Chars("1")) >>

(***************************************************************************)
(* Reading a tree: its Elements, and the escaped texts given by the rule   *)
(* of the claims, character by character.                                  *)
(***************************************************************************)
RECURSIVE Elements(_)
\* the Element e and the Elements below it
Elements(e) ==
  {e} \cup UNION {Elements(e.content[j]) :
                    j \in {n \in 1..Len(e.content) : e.content[n].t = "Element"}}

\* the text items of the Element e
Texts(e) == {e.content[j].s : j \in {n \in 1..Len(e.content) : e.content[n].t = "unicode"}}

\* the attribute values of the Element e
AttrValues(e) == {e.attrs[j][2] : j \in 1..Len(e.attrs)}

Entity(c) ==
  CASE c = "&" -> Chars("&amp;") [] c = "<" -> Chars("&lt;") [] c = ">" -> Chars("&gt;")
    [] OTHER -> <<c>>

RECURSIVE Entities(_)
\* every character of s replaced by its entity
Entities(s) == IF Len(s) = 0 THEN <<>> ELSE Entity(Head(s)) \o Entities(Tail(s))

\* handler i of the root tag is an attribute production reached with no error
\* whose name is legal and whose value resolves
RootAttribute(i) ==
  /\ RootHandlers[i].k = "Attribute"
  /\ Before(i).exc = "None"
  /\ Resolve(RootHandlers[i].attr, obj).exc = "None"
  /\ check_attr(force_unicode(Resolve(RootHandlers[i].attr, obj).val)).exc = "None"
  /\ Resolve(RootHandlers[i].value, obj).exc = "None"

AttrName(i) == force_unicode(Resolve(RootHandlers[i].attr, obj).val)
AttrText(i) == force_unicode(Resolve(RootHandlers[i].value, obj).val)

\* handler i of the root tag is a text production reached with no error whose
\* value resolves
RootText(i) ==
  /\ RootHandlers[i].k = "Text"
  /\ Before(i).exc = "None"
  /\ Resolve(RootHandlers[i].text, obj).exc = "None"

TextText(i) == force_unicode(Resolve(RootHandlers[i].text, obj).val)

(***************************************************************************)
(* C13: no attribute value stored in an Element of a returned tree holds a *)
(* double-quote character: each one of the resolved value was replaced by  *)
(* &quot;.                                                                 *)
(***************************************************************************)
C13_QuotesEscaped ==
  (Evaluated /\ tree.exc = "None") =>
    \A e \in Elements(tree.val) : \A v \in AttrValues(e) : ~Contains(v, "\"")

(***************************************************************************)
(* C14: every text item and attribute value of a returned tree is the text *)
(* of the resolved value with & replaced by &amp;, < by &lt; and > by      *)
(* &gt;, each character of the value once (the & of an entity written by   *)
(* the escaping is not escaped again); no text item or attribute value     *)
(* holds a raw < or >.                                                     *)
(***************************************************************************)
C14_Escaping ==
  /\ Evaluated => \A i \in 1..Len(RootHandlers) :
       /\ RootText(i) =>
            tree = After(i, Done([Before(i).cur EXCEPT
                     !.content = Append(@, Unicode(Entities(TextText(i))))]))
       /\ RootAttribute(i) =>
            tree = After(i, Done([Before(i).cur EXCEPT
                     !.attrs = Append(@, <<AttrName(i), Entities(AttrText(i))>>)]))
  /\ (Evaluated /\ tree.exc = "None") =>
       \A e \in Elements(tree.val) : \A v \in Texts(e) \cup AttrValues(e) :
         ~Contains(v, "<") /\ ~Contains(v, ">")

\* <r=a?&?> was evaluated on the string <&">
C14_Witness ==
  /\ Evaluated /\ tree.exc = "None"
  /\ obj = S("<&\">")
  /\ tree.val.attrs = << <<Chars("a"), Chars("&lt;&amp;\"&gt;")>> >>
  /\ tree.val.content = << Unicode(Chars("&lt;&amp;\"&gt;")) >>

\* the legality rules of a tag name
LegalTag(t) ==
  /\ Len(t) > 0
  /\ ~isdigit(t[1])
  /\ ~(Len(t) >= 3 /\ t[1] \in {"x", "X"} /\ t[2] \in {"m", "M"} /\ t[3] \in {"l", "L"})
  /\ \A j \in 1..Len(t) :
       t[j] \notin {"<", ">", "&", "\"", "'", " ", "\t", "\n", "\r", "\f", "chr11"}

\* the legality rules of an attribute name
LegalAttr(a) ==
  /\ Len(a) > 0
  /\ isalpha(a[1]) \/ a[1] \in {"_", ":"}
  /\ \A j \in 2..Len(a) : isalnum(a[j]) \/ a[j] \in {"_", ":", ".", "-"}

\* the errors of a lookup that fails
LookupFailures == {"KeyError", "AttributeError", "TypeError", "IndexError"}

\* handler i of the root tag is an attribute production reached with no error
\* whose name resolves
RootAttributeName(i) ==
  /\ RootHandlers[i].k = "Attribute"
  /\ Before(i).exc = "None"
  /\ Resolve(RootHandlers[i].attr, obj).exc = "None"

\* handler i of the root tag is a tag, repeated or not, reached with no error,
\* whose name resolves against the value v
RootChild(i, v) ==
  /\ RootHandlers[i].k = "Tag"
  /\ Before(i).exc = "None"
  /\ Resolve(RootHandlers[i].name, v).exc = "None"

(***************************************************************************)
(* C15: evaluation never raises a format error; a tag name or attribute    *)
(* name resolved from the data that breaks the legality rules ends the     *)
(* evaluation with ValueError, which is neither a format error nor the     *)
(* error of a failed lookup; every Element of a returned tree has a legal  *)
(* tag and legal attribute names.                                          *)
(***************************************************************************)
C15_NamesChecked ==
  /\ Evaluated => tree.exc \notin FormatErrors
  /\ "ValueError" \notin FormatErrors \cup LookupFailures
  /\ (Evaluated /\ tree.exc = "None") =>
       \A e \in Elements(tree.val) :
         /\ LegalTag(e.tag)
         /\ \A j \in 1..Len(e.attrs) : LegalAttr(e.attrs[j][1])
  /\ (Evaluated /\ Resolve(RootTag.name, obj).exc = "None"
      /\ ~LegalTag(force_unicode(Resolve(RootTag.name, obj).val))) =>
       tree.exc = "ValueError"
  /\ Evaluated => \A i \in 1..Len(RootHandlers) :
       /\ (RootAttributeName(i) /\ ~LegalAttr(AttrName(i))) => tree.exc = "ValueError"
       /\ (RootChild(i, obj)
           /\ ~LegalTag(force_unicode(Resolve(RootHandlers[i].name, obj).val))) =>
            tree.exc = "ValueError"
       /\ (DictTags(i) /\ Len(Source(i).val.pairs) > 0
           /\ ~LegalTag(force_unicode(Source(i).val.pairs[1][1]))) =>
            tree.exc = "ValueError"

\* <r<.0*?&.1>> was evaluated on a mapping with the key "xml"
C15_Witness ==
  /\ Evaluated /\ tree.exc = "ValueError"
  /\ Len(RootHandlers) = 1 /\ DictTags(1)
  /\ Len(Source(1).val.pairs) = 1
  /\ Source(1).val.pairs[1][1] = S("xml")

(***************************************************************************)
(* Reading what was written: the text that reached the caller, and the     *)
(* text of an Element with every attribute and every content item in the   *)
(* place it has in its list.                                               *)
(***************************************************************************)
RECURSIVE Flatten(_)
Flatten(ss) == IF Len(ss) = 0 THEN <<>> ELSE ss[1] \o Flatten(Tail(ss))

RECURSIVE Render(_)
Render(e) ==
  Chars("<") \o e.tag
  \o Flatten([j \in 1..Len(e.attrs) |->
                Chars(" ") \o e.attrs[j][1] \o Chars("=\"") \o e.attrs[j][2] \o Chars("\"")])
  \o Chars(">")
  \o Flatten([j \in 1..Len(e.content) |->
                IF e.content[j].t = "Element" THEN Render(e.content[j])
                ELSE e.content[j].s])
  \o Chars("</") \o e.tag \o Chars(">")

\* the text returned, or else the text the stream holds
OutputText ==
  IF output.res.ret # None THEN output.res.ret.s
  ELSE Flatten([j \in 1..Len(output.res.stream) |-> output.res.stream[j].s])

Prefix(a, b) == Len(a) <= Len(b) /\ SubSeq(b, 1, Len(a)) = a
Suffix(a, b) == Len(a) <= Len(b) /\ SubSeq(b, Len(b) - Len(a) + 1, Len(b)) = a

\* handler i of the root tag ran and did not fail
RootRan(i) == Before(i).exc = "None" /\ Before(i + 1).exc = "None"

(***************************************************************************)
(* C16: the attribute list and the content list of an Element are in the   *)
(* order in which the handlers ran: each handler of the root tag leaves    *)
(* the entries made before it as they are and in their places, an          *)
(* attribute production adds one entry at the end of the attribute list    *)
(* under its name, also when the name is there already, a text or a tag    *)
(* adds one item at the end of the content list, a repetition one item for *)
(* each item of its source; the returned root holds the lists the last     *)
(* handler left, and what is written holds every entry of every Element of *)
(* the tree, in list order.                                                *)
(***************************************************************************)
C16_Order ==
  /\ Evaluated => \A i \in 1..Len(RootHandlers) : RootRan(i) =>
       /\ Prefix(Before(i).cur.attrs, Before(i + 1).cur.attrs)
       /\ Prefix(Before(i).cur.content, Before(i + 1).cur.content)
       /\ RootHandlers[i].k = "Attribute" =>
            /\ Len(Before(i + 1).cur.attrs) = Len(Before(i).cur.attrs) + 1
            /\ Before(i + 1).cur.attrs[Len(Before(i + 1).cur.attrs)][1] = AttrName(i)
            /\ Before(i + 1).cur.content = Before(i).cur.content
       /\ RootHandlers[i].k \in {"Text", "Tag"} =>
            /\ Len(Before(i + 1).cur.content) = Len(Before(i).cur.content) + 1
            /\ Before(i + 1).cur.attrs = Before(i).cur.attrs
            /\ (Before(i + 1).cur.content[Len(Before(i + 1).cur.content)].t = "Element")
                 <=> (RootHandlers[i].k = "Tag")
       /\ (RootHandlers[i].k = "Repetition" /\ Iterable(Source(i).val)) =>
            /\ Len(Before(i + 1).cur.content)
                 = Len(Before(i).cur.content) + Len(CoercedItems(Source(i).val))
            /\ Before(i + 1).cur.attrs = Before(i).cur.attrs
  /\ (Evaluated /\ tree.exc = "None") =>
       /\ Before(Len(RootHandlers) + 1).exc = "None"
       /\ tree.val = Before(Len(RootHandlers) + 1).cur
  /\ Written => Suffix(Render(tree.val), OutputText)

\* <r=a?=a?> was evaluated and written: two entries under the name a, and the
\* text written holds both
C16_Witness ==
  /\ Written
  /\ Len(RootHandlers) = 2 /\ RootRan(1) /\ RootRan(2)
  /\ RootHandlers[1].k = "Attribute" /\ RootHandlers[2].k = "Attribute"
  /\ Len(tree.val.attrs) = 2
  /\ tree.val.attrs[1][1] = tree.val.attrs[2][1]
  /\ OutputText = Chars("<r a=\"1\" a=\"1\"></r>")

\* the declaration line for the encoding named e
Declaration(e) == Chars("<?xml version=\"1.0\" encoding=\"") \o e \o Chars("\"?>")

Within(a, t) == \E k \in 1..(Len(t) - Len(a) + 1) : SubSeq(t, k, k + Len(a) - 1) = a

\* the texts and attribute values of the Elements of the tree
TreeTexts == UNION {Texts(e) \cup AttrValues(e) : e \in Elements(tree.val)}

\* handler i of the root tag is a text production whose value is a bound method
MethodText(i) ==
  /\ RootText(i)
  /\ Resolve(RootHandlers[i].text, obj).val.t = "method"

RECURSIVE Reach(_, _)
\* the places of the Elements reachable from place i; the two lists of an
\* Element are made with it and are at its place
Reach(h, i) ==
  {i} \cup UNION {Reach(h, h[i].content[j].at) :
                    j \in {n \in 1..Len(h[i].content) : h[i].content[n].t = "ref"}}

Begun(k) == calls[k].parent # 0
Returned(k) == calls[k].ret # NotReturned
ReturnedTree(k) == Returned(k) /\ calls[k].ret.exc = "None"

\* what the call of thread k gives when it runs alone
Alone(k) == builder_call(builder.node, calls[k].arg)

(***************************************************************************)
(* C19: whatever the interleaving of the steps of the calls, a call that   *)
(* has returned has returned the tree, or raised the error, that the same  *)
(* call gives when it runs alone; each call has a placeholder parent of    *)
(* its own, and no Element, and so no attribute list or content list, is   *)
(* reachable from the placeholders or the results of two calls.            *)
(***************************************************************************)
C19_Isolation ==
  /\ \A k \in Threads : Returned(k) =>
       /\ calls[k].ret.exc = Alone(k).exc
       /\ ReturnedTree(k) => Deref(heap, calls[k].ret.val) = Alone(k).val
  /\ \A k, l \in Threads : (k # l /\ Begun(k) /\ Begun(l)) =>
       /\ calls[k].parent # calls[l].parent
       /\ Reach(heap, calls[k].parent) \cap Reach(heap, calls[l].parent) = {}
       /\ (ReturnedTree(k) /\ ReturnedTree(l)) =>
            Reach(heap, calls[k].ret.val.at) \cap Reach(heap, calls[l].ret.val.at) = {}

\* two calls of <r<s*?&?>> on different values have returned; the second began
\* before the first made its root, and made its own root first
C19_Witness ==
  /\ ReturnedTree(1) /\ ReturnedTree(2)
  /\ calls[1].arg # calls[2].arg
  /\ calls[1].parent = 1 /\ calls[2].parent = 2
  /\ calls[2].ret.val.at = 3 /\ calls[1].ret.val.at = 4
  /\ Len(heap[3].content) > 0 /\ Len(heap[4].content) > 0
  /\ heap[3].content[1].t = "ref" /\ heap[4].content[1].t = "ref"

Raised(k) == Returned(k) /\ calls[k].ret.exc # "None"

\* the call of thread k still has a handler to call, a tag to append or the
\* tree to return
Building(k) ==
  \E j \in 1..Len(calls[k].work) : calls[k].work[j].w \in {"call", "append", "return"}

\* what the destination of thread k receives for the tree that was built
Destined(k) ==
  encoded(document_writes(Deref(heap, calls[k].ret.val), calls[k].dest), calls[k].dest)

\* the Element at place t has a handler to run or is still to be appended
Unfinished(t) ==
  \E k \in Threads : \E j \in 1..Len(calls[k].work) :
    \/ calls[k].work[j].w = "call" /\ calls[k].work[j].cur = t
    \/ calls[k].work[j].w = "append" /\ calls[k].work[j].tag = t

(***************************************************************************)
(* C21: the destination stream of a serialize call has received something  *)
(* only if the whole tree was built, with no handler left to run, and what *)
(* it received is the beginning of the text of that tree; a call whose     *)
(* evaluation raised an error has written nothing; and an Element that is  *)
(* in the content list of a parent has no handler of its own left to run.  *)
(***************************************************************************)
C21_NothingBeforeTree ==
  /\ \A k \in Threads :
       /\ Len(calls[k].stream) > 0 =>
            /\ ReturnedTree(k)
            /\ ~Building(k)
            /\ Prefix(calls[k].stream, Destined(k))
            /\ Len(calls[k].stream) + Len(calls[k].work) = Len(Destined(k))
       /\ Raised(k) => calls[k].stream = <<>>
  /\ \A p \in 1..Len(heap) : \A j \in 1..Len(heap[p].content) :
       heap[p].content[j].t = "ref" => ~Unfinished(heap[p].content[j].at)

\* serialize with a stream has raised an error from the text of the child s:
\* the root and the child were made, neither was appended, nothing was written
C21_Witness ==
  /\ calls[1].dest # None
  /\ Raised(1)
  /\ Len(heap) = 3 /\ heap[3].tag = <<"s">>
  /\ heap[1].content = <<>> /\ heap[2].content = <<>> /\ heap[3].content = <<>>
  /\ calls[1].stream = <<>>

(***************************************************************************)
(* Reading a compiled program: its handler lists, and the conditionals     *)
(* that end without an else.                                               *)
(***************************************************************************)
RECURSIVE HandlerLists(_)
\* the handler lists of the tags and groups of a program
HandlerLists(node) ==
  CASE node.k = "Document" -> HandlerLists(node.handler)
    [] node.k = "Repetition" -> HandlerLists(node.handler)
    [] node.k \in {"Tag", "Group"} ->
         {node.handlers}
         \cup UNION {HandlerLists(node.handlers[j]) : j \in 1..Len(node.handlers)}
    [] node.k = "Conditional" ->
         HandlerLists(node.iftrue)
         \cup (IF node.iffalse # NoNode THEN HandlerLists(node.iffalse) ELSE {})
    [] OTHER -> {}

RECURSIVE OpenEnded(_)
\* a conditional whose text ends with the then-production of an else-less
\* conditional: itself, or the conditional its else ends with
OpenEnded(node) ==
  /\ node.k = "Conditional"
  /\ node.iffalse = NoNode \/ OpenEnded(node.iffalse)

\* the format is <r, the production a, the production b, >
RootPair(a, b) == fmt = Chars("<r") \o a \o b \o <<">">>

SingleRootDone == pc \in {"compiled", "raised"} /\ single_root

(***************************************************************************)
(* C22: a ~ right after the then-production of a conditional is taken as   *)
(* the else separator of that conditional.  In no handler list of a        *)
(* compiled program is a conditional that ends without an else followed    *)
(* by a conditional; an else-less conditional followed by a conditional    *)
(* production is a format error raised at the character after the ~, where *)
(* the else-production is parsed; and an else written after an else-less   *)
(* conditional that is the then-production of an outer conditional belongs *)
(* to the inner one.                                                       *)
(***************************************************************************)
C22_ElseTaken ==
  /\ Compiled =>
       \A hs \in HandlerLists(builder.node) : \A j \in 1..(Len(hs) - 1) :
         OpenEnded(hs[j]) => hs[j + 1].k # "Conditional"
  /\ SingleRootDone =>
       \A a \in ElseLess : \A b \in HandlerStrings :
         (b[1] = "~" /\ RootPair(a, b)) =>
           /\ builder.exc = "InvalidTag"
           /\ builder.idx = Len(a) + 3
  /\ SingleRootDone =>
       \A a \in ElseLess : fmt = Chars("<r~??") \o a \o Chars("~<c>>") =>
         /\ builder.exc = "None"
         /\ Len(RootHandlers) = 1
         /\ RootHandlers[1].k = "Conditional"
         /\ RootHandlers[1].iffalse = NoNode
         /\ RootHandlers[1].iftrue.k = "Conditional"
         /\ RootHandlers[1].iftrue.iffalse = Tag(Literal(S("c")), <<>>)

\* <r~??~?/1<t>~<c>> was compiled: the else <c> is the inner conditional's
C22_Witness ==
  /\ pc = "compiled" /\ single_root
  /\ fmt = Chars("<r~??~?/1<t>~<c>>")
  /\ RootHandlers[1].iffalse = NoNode
  /\ RootHandlers[1].iftrue.iffalse # NoNode

\* ---------------------------------------------------------------------------
\* C23: the parsing routines advance

\* compile has run on fmt, with or without a format error
Parsed == pc \in {"compiled", "raised"}

\* the indices a routine can be called with: a character of fmt, or its end
Indices == 0..Len(fmt)

\* the keyword arguments _val is called with
ValOpts == {NoOpts, Off("strings"), Off("unquoted"), Off("numbers")}

\* a routine called with idx that returns r has consumed at least one
\* character and has not gone past the end of fmt
Advanced(idx, r) == r.exc = "None" => (idx < r.idx /\ r.idx <= Len(fmt))

\* a loop entered at idx that ends with r has not moved backwards
NotDecreased(idx, r) == r.exc = "None" => (idx <= r.idx /\ r.idx <= Len(fmt))

\* a routine or loop that does not return ends in an exception raised at an
\* index of fmt or at its end
Ended(r) == r.exc # "None" => r.idx \in Indices

\* C23: compile terminates on every format: each of _quoted, _get, _val,
\* _list, _attr, _text, _group, _cond, _intag and _tag, called with any index
\* of the format, either raises or returns an index strictly greater than the
\* one it was called with and no greater than the length of the format; the
\* loops over lookup items and over handlers never move the index backwards;
\* and compile itself ends with the whole format consumed, with a format
\* error, or with the ValueError of an escape that the decoding of a quoted
\* string rejects after its loop has ended, never with the IndexError of a
\* read past the end. The routines do not read single_root, so they are
\* examined in the states reached by one of the two compilations of a format.
C23_IndexAdvances ==
  Parsed =>
    /\ single_root => \A idx \in Indices :
         /\ Advanced(idx, Compiler_quoted(fmt, idx))
         /\ Advanced(idx, Compiler_get(fmt, idx))
         /\ \A opts \in ValOpts : Advanced(idx, val_kw(fmt, idx, opts))
         /\ Advanced(idx, Compiler_list(fmt, idx))
         /\ Advanced(idx, Compiler_attr(fmt, idx))
         /\ Advanced(idx, Compiler_text(fmt, idx))
         /\ Advanced(idx, Compiler_group(fmt, idx))
         /\ Advanced(idx, Compiler_cond(fmt, idx))
         /\ Advanced(idx, Compiler_intag(fmt, idx))
         /\ \A single \in BOOLEAN : Advanced(idx, Compiler_tag(fmt, idx, single))
         /\ NotDecreased(idx, lookup_loop(fmt, idx, <<>>))
         /\ Advanced(idx, group_handlers(fmt, idx, <<>>))
         /\ Advanced(idx, tag_handlers(fmt, idx, <<>>))
         /\ \A sr \in BOOLEAN :
              NotDecreased(idx, compile_loop(fmt, idx, <<>>, sr))
         /\ Ended(Compiler_intag(fmt, idx))
    /\ pc = "compiled" => builder.idx = Len(fmt)
    /\ pc = "raised" => /\ builder.exc \in FormatErrors \cup {"ValueError"}
                       /\ builder.idx \in Indices

\* a format with a group, two conditionals, a number and nested tags has been
\* compiled: the group entered at 3 ends at 13, the conditional entered at 6
\* ends at 12 without an else, the one entered at 14 ends at 19
C23_Witness ==
  /\ pc = "compiled"
  /\ fmt = Chars("<r{.a~?/1<t>}~??<a>>")
  /\ Compiler_group(fmt, 3).idx = 13
  /\ Compiler_cond(fmt, 6).idx = 12
  /\ Compiler_cond(fmt, 14).idx = 19
  /\ builder.idx = 20

\* ---------------------------------------------------------------------------
\* C24: the assertions of the compiler

\* the result of a routine is not a failed assertion
Asserted(r) == r.exc # "AssertionError"

\* the format has a first character and it opens a tag
StartsWithTag == Len(fmt) > 0 /\ At(fmt, 0) = "<"

\* C24: no assertion of the compiler fails. compile never ends with an
\* AssertionError; with single_root, a try block that ends with the whole
\* format consumed has exactly one handler, and a format that does not start
\* with < has raised a format error before the assertion is reached; _get
\* and _val, the two callers of _quoted, and the routines _list, _attr and
\* _text that only call _val, entered at any index, never fail an assertion;
\* and every keyword set _val is called with leaves exactly the three options
\* strings, unquoted and numbers after the defaults are set.
C24_AssertionsHold ==
  Parsed =>
    /\ Asserted(builder)
    /\ (single_root /\ compile_try(fmt, TRUE).exc = "None"
          /\ compile_try(fmt, TRUE).idx = Len(fmt)) =>
         Len(compile_try(fmt, TRUE).node) = 1
    /\ (single_root /\ ~StartsWithTag) =>
         /\ pc = "raised"
         /\ builder.exc = "SerializationFormatError"
         /\ builder.msg = IF fmt = <<>> THEN "Unexpected end of format"
                          ELSE "Unprocessed tail"
    /\ \A idx \in Indices :
         /\ Asserted(Compiler_get(fmt, idx))
         /\ \A opts \in ValOpts : Asserted(val_kw(fmt, idx, opts))
         /\ Asserted(Compiler_list(fmt, idx))
         /\ Asserted(Compiler_attr(fmt, idx))
         /\ Asserted(Compiler_text(fmt, idx))
    /\ \A opts \in ValOpts :
         DOMAIN val_opts(opts) = {"strings", "unquoted", "numbers"}

\* a single-root format with a quoted string has been compiled: _quoted was
\* entered at a quote, _val was called with numbers turned off, and the one
\* handler of the root tag became the document
C24_Witness ==
  /\ pc = "compiled"
  /\ single_root
  /\ StartsWithTag
  /\ \E idx \in Indices :
       /\ idx < Len(fmt)
       /\ At(fmt, idx) = "\""
       /\ Compiler_quoted(fmt, idx).exc = "None"
       /\ val_kw(fmt, idx, Off("numbers")) = val_quoted(Compiler_quoted(fmt, idx))
  /\ Len(compile_try(fmt, TRUE).node) = 1
  /\ builder.node = Document(compile_try(fmt, TRUE).node[1])

====
